---- MODULE Spec2Model ----
(***************************************************************************)
(* Model of the website analyzer of Efffekt-web: the GET audit endpoint,   *)
(* the resource extractor, the five category analyzers, the aggregator    *)
(* (src/src/utils/dom.ts) and the client-side status helper               *)
(* (src/src/types/api.ts).                                                *)
(*                                                                         *)
(* Text representation.  An html document is a sequence of elements: an    *)
(* opening tag "<name a1 a2 ...>", a closing tag "</name>" or a run of     *)
(* plain text.  Every tag of the model is terminated by ">", so a pattern  *)
(* of the form <name[^>]*...> is decided inside one opening tag.  An       *)
(* attribute is [n, v, q]: q = "q" for n="v" (quoted), "u" for n=v and "b" *)
(* for a bare n.  All names and values are written in lower case, which    *)
(* is the case-folded form the /i patterns compare.                        *)
(***************************************************************************)
EXTENDS Integers, Sequences, FiniteSets, TLC

\* ------------------------------------------------------------- bounds
\* Longest document, in fragments of the catalogue below.
MaxFrags == 2
\* Longest script list handed directly to analyzePerformance.
MaxScripts == 6

\* ------------------------------------------------------------ helpers
Max2(a, b) == IF a >= b THEN a ELSE b
Min2(a, b) == IF a <= b THEN a ELSE b

RECURSIVE SumSeq(_)
SumSeq(s) == IF s = <<>> THEN 0 ELSE Head(s) + SumSeq(Tail(s))

RECURSIVE FlatSeq(_)
FlatSeq(ss) == IF ss = <<>> THEN <<>> ELSE Head(ss) \o FlatSeq(Tail(ss))

RECURSIVE Rep(_, _)
Rep(n, s) == IF n = 0 THEN <<>> ELSE s \o Rep(n - 1, s)

\* Array.prototype.filter(...).length
CountIdx(s, P(_)) == Cardinality({i \in 1..Len(s) : P(i)})

\* An optional value (undefined/null in the source) is <<>> or <<v>>.
None == <<>>
Some(v) == <<v>>
IsSome(m) == m # <<>>

\* --------------------------------------------------- text and its facts
\* s contains pat as a substring.  TLC does not look inside strings, so
\* the containments of the strings the documents use are listed.
SubstringFacts ==
  { <<"/js/async-loader.js", "async">>,
    <<"hero.webp", ".webp">>,
    <<"data-alt=", "alt=">>,
    <<"hero.avif", ".avif">>,
    <<"width=device-width, initial-scale=1", "width=device-width">>,
    <<"width=device-width, user-scalable=no", "width=device-width">>,
    <<"width=device-width, user-scalable=no", "user-scalable=no">>,
    <<"initial-scale=1, maximum-scale=1", "maximum-scale=1">>,
    <<"default-src 'self'; frame-ancestors 'none'", "frame-ancestors">>,
    <<"http://cdn.example.no/lib.js", "http://">>,
    <<"http://localhost:3000/dev.js", "http://">>,
    <<"http://localhost:3000/dev.js", "http://localhost">>,
    <<"@media screen and (max-width: 600px) {", "@media">>,
    <<"@media (min-width: 900px) {", "@media">>,
    <<"@media print {", "@media">>,
    <<"@media screen and (max-width: 600px) {", "screen">>,
    <<"@media screen and (max-width: 600px) {", "max-width">>,
    <<"@media (min-width: 900px) {", "min-width">> }

Contains(s, pat) == s = pat \/ <<s, pat>> \in SubstringFacts

\* String.prototype.toLowerCase on the values the documents use.
toLowerCase(s) ==
  IF s = "Width=Device-Width, Initial-Scale=1"
  THEN "width=device-width, initial-scale=1"
  ELSE s

\* (\d+) at the start of a value, then parseInt: <<>> when no digit leads.
LeadingDigits(v) ==
  CASE v = "640" -> Some(640)
    [] v = "480" -> Some(480)
    [] v = "100%" -> Some(100)
    [] OTHER -> None

\* ------------------------------------------------------------ elements
Attr(n, v) == [n |-> n, v |-> v, q |-> "q"]
Unq(n, v) == [n |-> n, v |-> v, q |-> "u"]
Bare(n) == [n |-> n, v |-> "", q |-> "b"]

Open(name, attrs) ==
  [k |-> "open", name |-> name, attrs |-> attrs, len |-> 0, lws |-> 0, rws |-> 0, marks |-> <<>>]
Close(name) ==
  [k |-> "close", name |-> name, attrs |-> <<>>, len |-> 0, lws |-> 0, rws |-> 0, marks |-> <<>>]
\* len characters of text, of which lws leading and rws trailing white
\* space; marks are the substrings of interest it contains, in order.
Text(len, lws, rws, marks) ==
  [k |-> "text", name |-> "", attrs |-> <<>>, len |-> len, lws |-> lws, rws |-> rws, marks |-> marks]

AttrLen(a) ==
  CASE a.q = "q" -> Len(a.n) + 3 + Len(a.v)
    [] a.q = "u" -> Len(a.n) + 1 + Len(a.v)
    [] OTHER -> Len(a.n)

\* Number of characters of an element as written in the document.
ElLen(e) ==
  CASE e.k = "text" -> e.len
    [] e.k = "close" -> Len(e.name) + 3
    [] OTHER -> Len(e.name) + 2 + SumSeq([i \in 1..Len(e.attrs) |-> 1 + AttrLen(e.attrs[i])])

\* html.length
HtmlLength(html) == SumSeq([i \in 1..Len(html) |-> ElLen(html[i])])

\* Positions of the opening tags <name ...> of a document, in order.
OpenIdx(html, name) == {i \in 1..Len(html) : html[i].k = "open" /\ html[i].name = name}

\* html.match(/<name[^>]*>/gi) || []
OpenTagsDeduplicated(html, name) ==
  LET RECURSIVE Pick(_)
      Pick(i) == IF i > Len(html) THEN <<>>
                 ELSE IF /\ html[i].k = "open" /\ html[i].name = name
                         /\ \A j \in 1..(i - 1) : html[j] # html[i]
                      THEN <<html[i]>> \o Pick(i + 1)
                      ELSE Pick(i + 1)
  IN Pick(1)

OpenTags(html, name) ==
  LET RECURSIVE Pick(_)
      Pick(i) == IF i > Len(html) THEN <<>>
                 ELSE IF html[i].k = "open" /\ html[i].name = name
                      THEN <<html[i]>> \o Pick(i + 1)
                      ELSE Pick(i + 1)
  IN Pick(1)

\* Positions of the attributes of a tag that match  n=["']value["'].
QuotedIs(tag, n, v) ==
  {i \in 1..Len(tag.attrs) : tag.attrs[i].n = n /\ tag.attrs[i].q = "q" /\ tag.attrs[i].v = v}
\* n=["']([^"']+)["']  (nonEmpty)  or  n=["']([^"']*)["']
QuotedAny(tag, n, nonEmpty) ==
  {i \in 1..Len(tag.attrs) :
      /\ tag.attrs[i].n = n
      /\ tag.attrs[i].q = "q"
      /\ (nonEmpty => tag.attrs[i].v # "")}
\* /n=/i.test(tagText): the text "n=" occurs anywhere in the tag, be it an
\* attribute whose name ends in n written with an equals sign right after
\* it (alt=, data-alt=) or part of a value.  A bare attribute has none.
HasAssign(tag, n) ==
  \E i \in 1..Len(tag.attrs) :
     \/ tag.attrs[i].q # "b" /\ Contains(tag.attrs[i].n \o "=", n \o "=")
     \/ Contains(tag.attrs[i].v, n \o "=")
\* /word/i.test(tagText): the word occurs anywhere in the tag's text.
Mentions(tag, word) ==
  \/ Contains(tag.name, word)
  \/ \E i \in 1..Len(tag.attrs) :
        Contains(tag.attrs[i].n, word) \/ Contains(tag.attrs[i].v, word)

SetMin(S) == CHOOSE x \in S : \A y \in S : x <= y
SetMax(S) == CHOOSE x \in S : \A y \in S : x >= y

\* ------------------------------------------------------ extractResources
\* match[1] of /<script[^>]*(?:src=["']([^"']+)["'])?[^>]*>/ on one opening
\* tag.  The backtracking engine tries the first [^>]* longest first, and
\* at each length the optional group before the empty alternative; the
\* first attempt that lets the rest of the pattern match is the match.
\* After k attributes the group matches when attribute k+1 is src="...";
\* without the group the second [^>]* and ">" match whatever is left.
ScriptMatch1(tag) ==
  LET n == Len(tag.attrs)
      GroupAt(k) == k < n /\ (k + 1) \in QuotedAny(tag, "src", TRUE)
      RestWithoutGroup(k) == TRUE
      k0 == SetMax({k \in 0..n : GroupAt(k) \/ RestWithoutGroup(k)})
  IN IF GroupAt(k0) THEN Some(tag.attrs[k0 + 1].v) ELSE None

ScriptRecord(tag) ==
  LET m1 == ScriptMatch1(tag)
  IN [src |-> m1,
      isInline |-> ~IsSome(m1),
      isAsync |-> Mentions(tag, "async"),
      isDefer |-> Mentions(tag, "defer"),
      isModule |-> QuotedIs(tag, "type", "module") # {}]

\* /<link[^>]*rel=["']stylesheet["'][^>]*href=["']([^"']+)["'][^>]*>/ :
\* the positions of an href="..." that follows a rel="stylesheet".
StylesheetHrefs(tag) ==
  {h \in QuotedAny(tag, "href", TRUE) :
      \E r \in QuotedIs(tag, "rel", "stylesheet") : r < h}

StylesheetRecord(tag) ==
  [href |-> tag.attrs[SetMax(StylesheetHrefs(tag))].v,
   isPreload |-> QuotedIs(tag, "rel", "preload") # {}]

\* /width=["']?(\d+)/i  and  /height=["']?(\d+)/i
DigitsOf(tag, n) ==
  LET hit == {i \in 1..Len(tag.attrs) :
                 /\ tag.attrs[i].n = n
                 /\ tag.attrs[i].q # "b"
                 /\ IsSome(LeadingDigits(tag.attrs[i].v))}
  IN IF hit = {} THEN None ELSE LeadingDigits(tag.attrs[SetMin(hit)].v)

\* The capture of the first  n=["'](...)["']  of a tag, if any.
FirstQuoted(tag, n, nonEmpty) ==
  LET hit == QuotedAny(tag, n, nonEmpty)
  IN IF hit = {} THEN None ELSE Some(tag.attrs[SetMin(hit)].v)

ImageRecord(tag) ==
  LET srcMatch == FirstQuoted(tag, "src", TRUE)
      altMatch == FirstQuoted(tag, "alt", FALSE)
      widthMatch == DigitsOf(tag, "width")
      heightMatch == DigitsOf(tag, "height")
      loadingMatch == FirstQuoted(tag, "loading", TRUE)
  IN [src |-> srcMatch,
      hasAlt |-> IsSome(altMatch),
      altText |-> altMatch,
      hasEmptyAlt |-> IF IsSome(altMatch) THEN altMatch[1] = "" ELSE FALSE,
      hasDimensions |-> IsSome(widthMatch) /\ IsSome(heightMatch),
      width |-> widthMatch,
      height |-> heightMatch,
      hasLazyLoading |-> IF IsSome(loadingMatch) THEN loadingMatch[1] = "lazy" ELSE FALSE,
      hasSrcset |-> HasAssign(tag, "srcset"),
      isWebP |-> IF IsSome(srcMatch) THEN Contains(srcMatch[1], ".webp") ELSE FALSE,
      isAvif |-> IF IsSome(srcMatch) THEN Contains(srcMatch[1], ".avif") ELSE FALSE,
      isModernFormat |-> IF IsSome(srcMatch)
                         THEN Contains(srcMatch[1], ".webp") \/ Contains(srcMatch[1], ".avif")
                         ELSE FALSE]

IframeRecord(tag) ==
  [src |-> FirstQuoted(tag, "src", TRUE),
   hasLazyLoading |-> QuotedIs(tag, "loading", "lazy") # {}]

MapTags(tags, F(_)) == [i \in 1..Len(tags) |-> F(tags[i])]

LinkStylesheetTags(html) ==
  SelectSeq(OpenTags(html, "link"), LAMBDA t : StylesheetHrefs(t) # {})

extractResources(html) ==
  [scripts |-> MapTags(OpenTags(html, "script"), ScriptRecord),
   stylesheets |-> MapTags(LinkStylesheetTags(html), StylesheetRecord),
   images |-> MapTags(OpenTags(html, "img"), ImageRecord),
   fonts |-> <<>>,
   iframes |-> MapTags(OpenTags(html, "iframe"), IframeRecord)]

\* ------------------------------------------------------------ findings
\* A message template with its interpolated number or string.
Msg(text, n) == [text |-> text, n |-> n, s |-> ""]
MsgS(text, str) == [text |-> text, n |-> 0, s |-> str]

\* One step of an analyzer: "score -= pts; issues.push({severity, message})"
\* or "details.push({type: 'success', message})".  rule names the branch
\* chain the step belongs to; pts and rule are history, not part of the
\* finding object f.
IssueChargedTwice(rule, pts, sev, msg) ==
  <<[rule |-> rule, pts |-> 2 * pts, list |-> "issues",
     f |-> [severity |-> Some(sev), type |-> None, message |-> msg]]>>

Issue(rule, pts, sev, msg) ==
  <<[rule |-> rule, pts |-> pts, list |-> "issues",
     f |-> [severity |-> Some(sev), type |-> None, message |-> msg]]>>
SuccessTaggedInfo(rule, msg) ==
  <<[rule |-> rule, pts |-> 0, list |-> "details",
     f |-> [severity |-> Some("info"), type |-> Some("success"), message |-> msg]]>>
Success(rule, msg) ==
  <<[rule |-> rule, pts |-> 0, list |-> "details",
     f |-> [severity |-> None, type |-> Some("success"), message |-> msg]]>>
NoStep == <<>>

\* The findings pushed to one of the two arrays, in push order.
Pushed(em, list) ==
  LET sel == SelectSeq(em, LAMBDA e : e.list = list)
  IN [i \in 1..Len(sel) |-> sel[i].f]

\* let score = 100; score -= ... for every step taken.
RawScore(em) == 100 - SumSeq([i \in 1..Len(em) |-> em[i].pts])

\* Math.max(0, Math.min(100, score))
ClampSignSlip(score) == 0 - Min2(100, score)
Clamp(score) == Max2(0, Min2(100, score))

\* [...details, ...issues]
IssuesThenDetails(em) == Pushed(em, "issues") \o Pushed(em, "details")
DetailsThenIssues(em) == Pushed(em, "details") \o Pushed(em, "issues")

\* ---------------------------------------------------- analyzePerformance
PerfResponseTime(responseTime) ==
  IF responseTime > 3000
  THEN Issue("responseTime", 25, "critical", Msg("Veldig treg server-respons", responseTime))
  ELSE IF responseTime > 1500
  THEN Issue("responseTime", 15, "warning", Msg("Treg server-respons", responseTime))
  ELSE IF responseTime > 600
  THEN Issue("responseTime", 8, "info", Msg("Server-respons kan forbedres", responseTime))
  ELSE Success("responseTime", Msg("Rask server-respons", responseTime))

\* Math.round(htmlSize / 1024)
HtmlSizeKB(htmlSize) == (2 * htmlSize + 1024) \div 2048

PerfHtmlSize(html) ==
  LET htmlSize == HtmlLength(html)
  IN IF htmlSize > 500000
     THEN Issue("htmlSize", 15, "critical", Msg("HTML-dokumentet er for stort", HtmlSizeKB(htmlSize)))
     ELSE IF htmlSize > 200000
     THEN Issue("htmlSize", 10, "warning", Msg("HTML-dokumentet er stort", HtmlSizeKB(htmlSize)))
     ELSE IF htmlSize > 100000
     THEN Issue("htmlSize", 5, "info", Msg("HTML-dokumentet er litt stort", HtmlSizeKB(htmlSize)))
     ELSE NoStep

\* resources.scripts.filter(s => !s.isInline && !s.isAsync && !s.isDefer).length
BlockingScriptsNoInlineTest(resources) ==
  CountIdx(resources.scripts,
           LAMBDA i : ~resources.scripts[i].isAsync /\ ~resources.scripts[i].isDefer)
BlockingScripts(resources) ==
  CountIdx(resources.scripts,
           LAMBDA i : /\ ~resources.scripts[i].isInline
                      /\ ~resources.scripts[i].isAsync
                      /\ ~resources.scripts[i].isDefer)

PerfBlockingFromTwo(blockingScripts) ==
  IF blockingScripts > 5
  THEN Issue("blockingScripts", 12, "critical", Msg("render-blokkerende scripts (bruk async/defer)", blockingScripts))
  ELSE IF blockingScripts >= 2
  THEN Issue("blockingScripts", 6, "warning", Msg("render-blokkerende scripts", blockingScripts))
  ELSE NoStep

PerfBlocking(blockingScripts) ==
  IF blockingScripts > 5
  THEN Issue("blockingScripts", 12, "critical", Msg("render-blokkerende scripts (bruk async/defer)", blockingScripts))
  ELSE IF blockingScripts > 2
  THEN Issue("blockingScripts", 6, "warning", Msg("render-blokkerende scripts", blockingScripts))
  ELSE NoStep

PerfTotalScripts(totalScripts) ==
  IF totalScripts > 25
  THEN Issue("totalScripts", 8, "warning", Msg("For mange scripts (bør konsolideres)", totalScripts))
  ELSE IF totalScripts > 15
  THEN Issue("totalScripts", 4, "info", Msg("Mange scripts", totalScripts))
  ELSE NoStep

PerfStylesheets(externalStylesheets) ==
  IF externalStylesheets > 8
  THEN Issue("stylesheets", 8, "warning", Msg("For mange CSS-filer (bør kombineres)", externalStylesheets))
  ELSE IF externalStylesheets > 4
  THEN Issue("stylesheets", 4, "info", Msg("Flere CSS-filer", externalStylesheets))
  ELSE NoStep

PerfImages(images) ==
  LET imagesWithoutDimensions == CountIdx(images, LAMBDA i : ~images[i].hasDimensions)
      \* idx > 2 counts from 0: the fourth image onwards
      imagesWithoutLazyLoad == CountIdx(images, LAMBDA i : ~images[i].hasLazyLoading /\ i - 1 > 2)
      imagesWithoutModernFormat ==
        CountIdx(images, LAMBDA i : IsSome(images[i].src) /\ ~images[i].isModernFormat)
  IN IF Len(images) > 0
     THEN (IF imagesWithoutDimensions > 3
           THEN Issue("imageDimensions", 6, "warning",
                      Msg("bilder mangler width/height (forårsaker layout shift)", imagesWithoutDimensions))
           ELSE NoStep)
          \o
          (IF imagesWithoutLazyLoad > 5
           THEN Issue("imageLazyLoad", 5, "warning",
                      Msg("bilder under fold mangler lazy loading", imagesWithoutLazyLoad))
           ELSE NoStep)
          \o
          (IF imagesWithoutModernFormat > 5 /\ Len(images) > 3
           THEN Issue("imageFormat", 5, "info",
                      Msg("bilder bruker ikke moderne formater (WebP/AVIF)", imagesWithoutModernFormat))
           ELSE NoStep)
     ELSE NoStep

PerfIframes(iframes) ==
  LET iframesWithoutLazy == CountIdx(iframes, LAMBDA i : ~iframes[i].hasLazyLoading)
  IN IF iframesWithoutLazy > 0
     THEN Issue("iframes", 3, "info", Msg("iframes mangler lazy loading", iframesWithoutLazy))
     ELSE NoStep

analyzePerformance(responseTime, html, resources) ==
  LET em == PerfResponseTime(responseTime)
            \o PerfHtmlSize(html)
            \o PerfBlocking(BlockingScripts(resources))
            \o PerfTotalScripts(Len(resources.scripts))
            \o PerfStylesheets(Len(resources.stylesheets))
            \o PerfImages(resources.images)
            \o PerfIframes(resources.iframes)
      inlineStyleCount == Len(OpenTags(html, "style"))
  IN [score |-> Clamp(RawScore(em)),
      details |-> DetailsThenIssues(em),
      emitted |-> em,
      metrics |-> [responseTime |-> responseTime,
                   htmlSize |-> HtmlSizeKB(HtmlLength(html)),
                   totalScripts |-> Len(resources.scripts),
                   blockingScripts |-> BlockingScripts(resources),
                   totalStylesheets |-> Len(resources.stylesheets) + inlineStyleCount,
                   totalImages |-> Len(resources.images)]]

\* ------------------------------------------------------------ analyzeSEO
\* html.match(/<title[^>]*>([\s\S]*?)<\/title>/i): the positions <<i, j>> of
\* the first <title ...> and of the first </title> after it, or <<>>.  The
\* lazy group stops at the first closing tag.
TitleMatch(html) ==
  LET opens == OpenIdx(html, "title")
      closes == {j \in 1..Len(html) : html[j].k = "close" /\ html[j].name = "title"}
      ok == {i \in opens : \E j \in closes : i < j}
  IN IF ok = {} THEN <<>>
     ELSE LET i0 == SetMin(ok)
          IN <<i0, SetMin({j \in closes : i0 < j})>>

\* titleMatch[1].trim().length: the characters between the two tags less
\* the white space at both ends (a text run holds a non-blank character).
TrimmedLength(html, i, j) ==
  LET total == SumSeq([x \in 1..(j - i - 1) |-> ElLen(html[i + x])])
      lead == IF j - i > 1 /\ html[i + 1].k = "text" THEN html[i + 1].lws ELSE 0
      trail == IF j - i > 1 /\ html[j - 1].k = "text" THEN html[j - 1].rws ELSE 0
  IN total - lead - trail

SeoTitle(html) ==
  LET titleMatch == TitleMatch(html)
  IN IF titleMatch = <<>>
     THEN Issue("title", 15, "critical", Msg("Mangler title-tag", 0))
     ELSE LET length == TrimmedLength(html, titleMatch[1], titleMatch[2])
          IN IF length < 10
             THEN Issue("title", 10, "warning", Msg("Title er for kort (anbefalt 50-60)", length))
             ELSE IF length > 70
             THEN Issue("title", 5, "warning", Msg("Title er for lang (anbefalt 50-60)", length))
             ELSE IF length >= 50 /\ length <= 60
             THEN Success("title", Msg("Optimal title-lengde", length))
             ELSE NoStep

\* Positions <<tag, attribute>> of the capture of
\* /<meta[^>]*first[^>]*second=["'](...)["']/ (firstIsKey) or of
\* /<meta[^>]*second=["'](...)["'][^>]*first/ : in the first tag of the
\* document that matches, the greedy [^>]* keeps the last candidate.
MetaPair(html, keyName, keyValue, capName, nonEmpty, keyFirst) ==
  LET Caps(t) ==
        {c \in QuotedAny(t, capName, nonEmpty) :
            \E k \in QuotedIs(t, keyName, keyValue) : IF keyFirst THEN k < c ELSE c < k}
      tags == {i \in OpenIdx(html, "meta") : Caps(html[i]) # {}}
  IN IF tags = {} THEN None
     ELSE LET t == SetMin(tags)
          IN Some(html[t].attrs[SetMax(Caps(html[t]))].v)

\* descMatch of analyzeSEO: name before content, else content before name.
DescMatch(html) ==
  LET first == MetaPair(html, "name", "description", "content", FALSE, TRUE)
  IN IF IsSome(first) THEN first
     ELSE MetaPair(html, "name", "description", "content", FALSE, FALSE)

SeoDescription(html) ==
  LET descMatch == DescMatch(html)
  IN IF ~IsSome(descMatch)
     THEN Issue("description", 12, "critical", Msg("Mangler meta description", 0))
     ELSE LET length == Len(descMatch[1])
          IN IF length < 70
             THEN Issue("description", 6, "warning",
                        Msg("Meta description er for kort (anbefalt 150-160)", length))
             ELSE IF length > 160
             THEN Issue("description", 3, "info",
                        Msg("Meta description er litt lang (kan bli avkortet)", length))
             ELSE NoStep

\* (html.match(/<h1[^>]*>([\s\S]*?)<\/h1>/gi) || []).length: each match runs
\* from an opening <h1 ...> to the first </h1> after it, and the search
\* resumes behind that closing tag.
RECURSIVE H1PairsFrom(_, _)
H1PairsFrom(html, p) ==
  LET closes == {j \in p..Len(html) : html[j].k = "close" /\ html[j].name = "h1"}
      ok == {i \in OpenIdx(html, "h1") : i >= p /\ \E j \in closes : i < j}
  IN IF ok = {} THEN 0
     ELSE LET i0 == SetMin(ok)
              j0 == SetMin({j \in closes : i0 < j})
          IN 1 + H1PairsFrom(html, j0 + 1)

SeoH1Count(html) == H1PairsFrom(html, 1)

SeoH1(html) ==
  LET n == SeoH1Count(html)
  IN IF n = 0
     THEN Issue("h1", 10, "critical", Msg("Mangler H1-overskrift", 0))
     ELSE IF n > 1
     THEN Issue("h1", 5, "warning", Msg("Flere H1-overskrifter (bør kun ha én)", n))
     ELSE Success("h1", Msg("Korrekt bruk av H1-overskrift", 0))

\* /<link[^>]*rel=["']value["'][^>]*href=["']([^"']+)["']/i
LinkRelHref(html, value) ==
  \E i \in OpenIdx(html, "link") :
     \E r \in QuotedIs(html[i], "rel", value) :
        \E h \in QuotedAny(html[i], "href", TRUE) : r < h

SeoCanonical(html) ==
  IF ~LinkRelHref(html, "canonical")
  THEN Issue("canonical", 8, "warning", Msg("Mangler canonical URL", 0))
  ELSE Success("canonical", Msg("Canonical URL er definert", 0))

\* /<meta[^>]*property=["']value["']/i
MetaProperty(html, value) ==
  \E i \in OpenIdx(html, "meta") : QuotedIs(html[i], "property", value) # {}

SeoOpenGraph(html) ==
  LET ogScore == Cardinality({p \in {"og:title", "og:description", "og:image", "og:url"} :
                                 MetaProperty(html, p)})
  IN IF ogScore = 0
     THEN Issue("openGraph", 8, "warning",
                Msg("Mangler Open Graph-tags (påvirker deling på sosiale medier)", 0))
     ELSE IF ogScore < 4
     THEN Issue("openGraph", 4, "info", Msg("Ufullstendige Open Graph-tags (/4)", ogScore))
     ELSE Success("openGraph", Msg("Komplett Open Graph-implementasjon", 0))

\* imgTags.filter(img => !/alt=/i.test(img)).length
ImagesWithoutAlt(html) ==
  LET imgTags == OpenTags(html, "img")
  IN CountIdx(imgTags, LAMBDA i : ~HasAssign(imgTags[i], "alt"))

SeoImageAlt(html) ==
  LET imagesWithoutAlt == ImagesWithoutAlt(html)
  IN IF imagesWithoutAlt > 0
     THEN Issue("imageAlt", Min2(10, imagesWithoutAlt * 2), "warning",
                Msg("bilder mangler alt-tekst", imagesWithoutAlt))
     ELSE NoStep

\* /word/i.test(html): the word occurs anywhere in the document.
HtmlMentions(html, word) ==
  \E i \in 1..Len(html) :
     \/ html[i].k = "open" /\ Mentions(html[i], word)
     \/ \E m \in 1..Len(html[i].marks) : Contains(html[i].marks[m], word)

SeoStructuredData(html) ==
  LET hasJsonLd == \E i \in OpenIdx(html, "script") :
                      QuotedIs(html[i], "type", "application/ld+json") # {}
      hasMicrodata == HtmlMentions(html, "itemscope") \/ HtmlMentions(html, "itemtype")
  IN IF ~hasJsonLd /\ ~hasMicrodata
     THEN Issue("structuredData", 5, "info", Msg("Mangler strukturert data (Schema.org)", 0))
     ELSE Success("structuredData", Msg("Strukturert data er implementert", 0))

\* /<html[^>]*lang=["']([^"']+)["']/i
HtmlLang(html) ==
  LET tags == {i \in OpenIdx(html, "html") : QuotedAny(html[i], "lang", TRUE) # {}}
  IN IF tags = {} THEN None
     ELSE LET t == SetMin(tags)
          IN Some(html[t].attrs[SetMax(QuotedAny(html[t], "lang", TRUE))].v)

SeoLang(html) ==
  IF ~IsSome(HtmlLang(html))
  THEN Issue("lang", 3, "info", Msg("Mangler språkdeklarasjon (lang-attributt)", 0))
  ELSE NoStep

analyzeSEO(html, parsedUrl) ==
  LET em == SeoTitle(html)
            \o SeoDescription(html)
            \o SeoH1(html)
            \o SeoCanonical(html)
            \o SeoOpenGraph(html)
            \o SeoImageAlt(html)
            \o SeoStructuredData(html)
            \o SeoLang(html)
  IN [score |-> Clamp(RawScore(em)),
      details |-> DetailsThenIssues(em),
      emitted |-> em]

\* ------------------------------------------------------- analyzeSecurity
\* headerObj[name]: headers.forEach copies every header under its
\* lower-cased name; a missing header reads undefined.
HeaderValue(headers, name) ==
  IF name \in DOMAIN headers THEN Some(headers[name]) ELSE None
\* Truthiness of a header value: undefined and "" are falsy.
Truthy(m) == IsSome(m) /\ m[1] # ""

SecHttps(parsedUrl) ==
  IF parsedUrl.protocol # "https:"
  THEN Issue("https", 30, "critical", Msg("Siden bruker ikke HTTPS", 0))
  ELSE Success("https", Msg("HTTPS er aktivert", 0))

SecHsts(headers) ==
  IF ~Truthy(HeaderValue(headers, "strict-transport-security"))
  THEN Issue("hsts", 12, "warning", Msg("Mangler HSTS-header (Strict-Transport-Security)", 0))
  ELSE Success("hsts", Msg("HSTS er korrekt konfigurert", 0))

SecCsp(headers) ==
  IF ~Truthy(HeaderValue(headers, "content-security-policy"))
  THEN Issue("csp", 10, "warning", Msg("Mangler Content-Security-Policy header", 0))
  ELSE Success("csp", Msg("CSP er implementert", 0))

\* !xfo && !csp?.includes('frame-ancestors')
SecClickjacking(headers) ==
  LET xfo == HeaderValue(headers, "x-frame-options")
      csp == HeaderValue(headers, "content-security-policy")
      cspIncludes == IsSome(csp) /\ Contains(csp[1], "frame-ancestors")
  IN IF ~Truthy(xfo) /\ ~cspIncludes
     THEN Issue("clickjacking", 8, "warning",
                Msg("Mangler clickjacking-beskyttelse (X-Frame-Options)", 0))
     ELSE Success("clickjacking", Msg("Clickjacking-beskyttelse er aktiv", 0))

SecNosniff(headers) ==
  IF ~Truthy(HeaderValue(headers, "x-content-type-options"))
  THEN Issue("nosniff", 6, "warning", Msg("Mangler X-Content-Type-Options: nosniff", 0))
  ELSE NoStep

\* An occurrence of /http:\/\/(?!localhost)[^"'\s>]+/ in a string.
IsHttpRef(str) == Contains(str, "http://") /\ ~Contains(str, "http://localhost")

\* (html.match(/http:\/\/(?!localhost)[^"'\s>]+/gi) || []).length
HttpResources(html) ==
  SumSeq([i \in 1..Len(html) |->
            CountIdx(html[i].attrs, LAMBDA a : IsHttpRef(html[i].attrs[a].v))
            + CountIdx(html[i].marks, LAMBDA m : IsHttpRef(html[i].marks[m]))])

SecMixedContent(parsedUrl, html) ==
  LET n == HttpResources(html)
  IN IF n > 0 /\ parsedUrl.protocol = "https:"
     THEN Issue("mixedContent", 5, "warning", Msg("ressurser lastes over HTTP (mixed content)", n))
     ELSE NoStep

analyzeSecurity(parsedUrl, headers, html) ==
  LET em == SecHttps(parsedUrl)
            \o SecHsts(headers)
            \o SecCsp(headers)
            \o SecClickjacking(headers)
            \o SecNosniff(headers)
            \o SecMixedContent(parsedUrl, html)
  IN [score |-> Clamp(RawScore(em)),
      details |-> DetailsThenIssues(em),
      emitted |-> em,
      headers |-> [https |-> parsedUrl.protocol = "https:",
                   hsts |-> Truthy(HeaderValue(headers, "strict-transport-security")),
                   csp |-> Truthy(HeaderValue(headers, "content-security-policy")),
                   xfo |-> Truthy(HeaderValue(headers, "x-frame-options")),
                   xcto |-> Truthy(HeaderValue(headers, "x-content-type-options"))]]

\* --------------------------------------------------------- analyzeMobile
\* /<meta[^>]*name=["']viewport["'][^>]*content=["']([^"']+)["']/i
ViewportMatch(html) == MetaPair(html, "name", "viewport", "content", TRUE, TRUE)

MobViewport(html) ==
  LET viewportMatch == ViewportMatch(html)
  IN IF ~IsSome(viewportMatch)
     THEN Issue("viewport", 25, "critical", Msg("Mangler viewport meta-tag", 0))
     ELSE LET viewport == toLowerCase(viewportMatch[1])
          IN (IF ~Contains(viewport, "width=device-width")
              THEN Issue("viewportWidth", 10, "warning", Msg("Viewport mangler width=device-width", 0))
              ELSE Success("viewportWidth", Msg("Viewport er korrekt konfigurert", 0)))
             \o
             (IF Contains(viewport, "maximum-scale=1") \/ Contains(viewport, "user-scalable=no")
              THEN Issue("viewportZoom", 5, "warning",
                         Msg("Viewport blokkerer zoom (dårlig for tilgjengelighet)", 0))
              ELSE NoStep)

MobResponsiveImages(html) ==
  LET imgTags == OpenTags(html, "img")
      responsiveImages == CountIdx(imgTags, LAMBDA i : HasAssign(imgTags[i], "srcset"))
  IN IF Len(imgTags) > 5 /\ responsiveImages = 0
     THEN Issue("responsiveImages", 8, "warning", Msg("Ingen responsive bilder (srcset/picture)", 0))
     ELSE NoStep

\* mediaQueries.filter(mq => /max-width|min-width|screen/i.test(mq)).length
\* over html.match(/@media[^{]*\{/gi)
MobileQueries(html) ==
  SumSeq([i \in 1..Len(html) |->
            CountIdx(html[i].marks,
                     LAMBDA m : /\ Contains(html[i].marks[m], "@media")
                                /\ \/ Contains(html[i].marks[m], "max-width")
                                   \/ Contains(html[i].marks[m], "min-width")
                                   \/ Contains(html[i].marks[m], "screen"))])

MobMediaQueries(html) ==
  LET mobileQueries == MobileQueries(html)
  IN IF mobileQueries = 0
     THEN Issue("mediaQueries", 10, "warning", Msg("Ingen CSS media queries for responsivt design", 0))
     ELSE IF mobileQueries >= 3
     THEN Success("mediaQueries", Msg("responsive media queries", mobileQueries))
     ELSE NoStep

\* /<link[^>]*rel=["']value["']/i.test(html)
LinkRel(html, value) ==
  \E i \in OpenIdx(html, "link") : QuotedIs(html[i], "rel", value) # {}

MobManifest(html) ==
  IF ~LinkRel(html, "manifest")
  THEN Issue("manifest", 5, "info", Msg("Mangler Web App Manifest (PWA-støtte)", 0))
  ELSE Success("manifest", Msg("Web App Manifest er implementert", 0))

MobTouchIcon(html) ==
  IF ~LinkRel(html, "apple-touch-icon")
  THEN Issue("touchIcon", 3, "info", Msg("Mangler Apple Touch Icon", 0))
  ELSE NoStep

analyzeMobile(html) ==
  LET em == MobViewport(html)
            \o MobResponsiveImages(html)
            \o MobMediaQueries(html)
            \o MobManifest(html)
            \o MobTouchIcon(html)
  IN [score |-> Clamp(RawScore(em)),
      details |-> DetailsThenIssues(em),
      emitted |-> em]

\* -------------------------------------------------- analyzeAccessibility
AccLang(html) ==
  LET htmlLang == HtmlLang(html)
  IN IF ~IsSome(htmlLang)
     THEN Issue("lang", 8, "warning", Msg("Mangler lang-attributt på html-elementet", 0))
     ELSE Success("lang", MsgS("Språk er definert", htmlLang[1]))

AccImageAlt(html) ==
  LET imgTags == OpenTags(html, "img")
      imagesWithoutAlt == ImagesWithoutAlt(html)
  IN IF imagesWithoutAlt > 0
     THEN Issue("imageAlt", Min2(15, imagesWithoutAlt * 3), "warning",
                Msg("bilder mangler alt-attributt", imagesWithoutAlt))
     ELSE IF Len(imgTags) > 0
     THEN Success("imageAlt", Msg("Alle bilder har alt-attributt", 0))
     ELSE NoStep

\* /<name[^>]*>|role=["']role["']/i.test(html)
Landmark(html, name, role) ==
  \/ OpenIdx(html, name) # {}
  \/ \E i \in 1..Len(html) : html[i].k = "open" /\ QuotedIs(html[i], "role", role) # {}

AccLandmarks(html) ==
  LET landmarks ==
        Cardinality({p \in {<<"main", "main">>, <<"nav", "navigation">>,
                            <<"header", "banner">>, <<"footer", "contentinfo">>} :
                        Landmark(html, p[1], p[2])})
  IN IF landmarks < 2
     THEN Issue("landmarks", 6, "warning", Msg("Få ARIA landmarks (main, nav, header, footer)", 0))
     ELSE IF landmarks = 4
     THEN Success("landmarks", Msg("God bruk av semantiske landmarks", 0))
     ELSE NoStep

\* (html.match(/<h1[^>]*>/gi) || []).length
AccH1Count(html) == Len(OpenTags(html, "h1"))

AccH1(html) ==
  IF AccH1Count(html) = 0
  THEN Issue("h1", 5, "warning", Msg("Mangler H1-overskrift", 0))
  ELSE NoStep

analyzeAccessibility(html) ==
  LET em == AccLang(html)
            \o AccImageAlt(html)
            \o AccLandmarks(html)
            \o AccH1(html)
  IN [score |-> Clamp(RawScore(em)),
      details |-> DetailsThenIssues(em),
      emitted |-> em]

\* -------------------------------------------------------------- status
\* getStatus of the endpoint
getStatus(score) ==
  IF score >= 90 THEN "green"
  ELSE IF score >= 70 THEN "yellow"
  ELSE IF score >= 50 THEN "orange"
  ELSE "red"

\* getScoreColorClass of the client
getScoreColorClassStrict(score) ==
  IF score > 90 THEN "green"
  ELSE IF score > 70 THEN "yellow"
  ELSE IF score > 50 THEN "orange"
  ELSE "red"
getScoreColorClass(score) ==
  IF score >= 90 THEN "green"
  ELSE IF score >= 70 THEN "yellow"
  ELSE IF score >= 50 THEN "orange"
  ELSE "red"

\* ----------------------------------------------------------- aggregator
\* Math.round(p * 0.25 + s * 0.25 + c * 0.20 + m * 0.15 + a * 0.15), in
\* hundredths.
WeightedSumUniform(p, s, c, m, a) == 20 * p + 20 * s + 20 * c + 20 * m + 20 * a
WeightedSum(p, s, c, m, a) == 25 * p + 25 * s + 20 * c + 15 * m + 15 * a

\* The values Math.round can return for a sum of w hundredths.  0.20 and
\* 0.15 are not binary fractions, so the double sum carries an error far
\* below one hundredth: it decides nothing except at an exact half, where
\* the sum may land just below it and round down (32, 54, 27, 72, 92 sums
\* to 51.49999999999999) or on it and round up.
RoundedHundredths(w) ==
  IF w % 100 = 50 THEN {w \div 100, w \div 100 + 1} ELSE {(w + 50) \div 100}

industryBenchmarks ==
  [performance |-> 68, seo |-> 72, security |-> 65, mobile |-> 78, accessibility |-> 62]

Categories == {"performance", "seo", "security", "mobile", "accessibility"}

\* The result object of GET: every category with score, status, details
\* and benchmark.
Report(url, responseTime, totalScore, res) ==
  [url |-> url,
   analyzedAt |-> "new Date().toISOString()",
   responseTime |-> responseTime,
   totalScore |-> totalScore,
   benchmarks |-> industryBenchmarks,
   categories |->
     [c \in Categories |->
        [score |-> res[c].score,
         status |-> getStatus(res[c].score),
         details |-> res[c].details,
         benchmark |-> industryBenchmarks[c]]]]

\* The five analyzer calls of GET, in call order.
Analyze(responseTime, html, resources, parsedUrl, headers) ==
  [performance |-> analyzePerformance(responseTime, html, resources),
   seo |-> analyzeSEO(html, parsedUrl),
   security |-> analyzeSecurity(parsedUrl, headers, html),
   mobile |-> analyzeMobile(html),
   accessibility |-> analyzeAccessibility(html)]

\* ------------------------------------------------------------ documents
RECURSIVE StrRep(_, _)
StrRep(n, str) == IF n = 0 THEN "" ELSE str \o StrRep(n - 1, str)

ImgBare == Open("img", <<Attr("src", "x.jpg")>>)
ImgGood ==
  Open("img", <<Attr("src", "hero.webp"), Attr("alt", ""), Attr("width", "640"),
                Unq("height", "480"), Attr("loading", "lazy"), Attr("srcset", "hero.webp 2x")>>)
ScriptSrc == Open("script", <<Attr("src", "/js/app.js")>>)
ScriptAsync == Open("script", <<Bare("async"), Attr("src", "/js/lib.js")>>)
ScriptInline == Open("script", <<>>)

\* The fragments documents are built from.
Catalogue ==
  [meta |-> <<Open("title", <<>>), Text(57, 1, 1, <<>>), Close("title"),
              Open("meta", <<Attr("name", "description"),
                             Attr("content", StrRep(155, "d"))>>)>>,
   titleShort |-> <<Open("title", <<>>), Text(4, 0, 0, <<>>), Close("title")>>,
   h1 |-> <<Open("h1", <<Attr("class", "hero")>>), Text(12, 0, 0, <<>>), Close("h1")>>,
   h1Unclosed |-> <<Open("h1", <<>>), Text(12, 0, 0, <<>>)>>,
   head |-> <<Open("html", <<Attr("lang", "nb")>>),
              Open("link", <<Attr("rel", "canonical"), Attr("href", "https://example.no/")>>),
              Open("meta", <<Attr("property", "og:title"), Attr("content", "t")>>),
              Open("meta", <<Attr("property", "og:description"), Attr("content", "d")>>),
              Open("meta", <<Attr("property", "og:image"), Attr("content", "hero.webp")>>),
              Open("meta", <<Attr("property", "og:url"), Attr("content", "https://example.no/")>>),
              Open("meta", <<Attr("name", "viewport"),
                             Attr("content", "Width=Device-Width, Initial-Scale=1")>>),
              Open("link", <<Attr("rel", "manifest"), Attr("href", "/site.webmanifest")>>),
              Open("link", <<Attr("rel", "apple-touch-icon"), Attr("href", "/icon.png")>>),
              Open("script", <<Attr("type", "application/ld+json")>>), Close("script")>>,
   langLd |-> <<Open("html", <<Attr("lang", "nb")>>),
                Open("script", <<Attr("type", "application/ld+json")>>), Close("script")>>,
   viewportZoom |-> <<Open("meta", <<Attr("name", "viewport"),
                                     Attr("content", "width=device-width, user-scalable=no")>>)>>,
   viewportScale |-> <<Open("meta", <<Attr("name", "viewport"),
                                      Attr("content", "initial-scale=1, maximum-scale=1")>>)>>,
   imgBare |-> <<ImgBare>>,
   imgDataAlt |-> <<Open("img", <<Attr("src", "x.jpg"), Attr("data-alt", "hero")>>)>>,
   nineImages |-> Rep(9, <<ImgBare>>),
   assets |-> <<ScriptSrc, Close("script"), ScriptAsync, Close("script"),
                ScriptInline, Text(40, 0, 0, <<>>), Close("script"),
                Open("iframe", <<Attr("src", "http://cdn.example.no/lib.js")>>),
                Open("link", <<Attr("rel", "stylesheet"), Attr("href", "/a.css")>>),
                Open("link", <<Attr("href", "/b.css"), Attr("rel", "stylesheet")>>)>>,
   sixScripts |-> Rep(6, <<ScriptSrc, Close("script")>>),
   body |-> <<Open("header", <<>>), Open("nav", <<>>), Open("main", <<>>),
              Open("style", <<>>),
              Text(120, 0, 0, <<"@media screen and (max-width: 600px) {",
                                "@media (min-width: 900px) {",
                                "@media screen and (max-width: 600px) {",
                                "@media print {">>),
              Close("style"),
              ImgGood,
              Open("footer", <<>>)>>,
   padding |-> <<Text(500001, 0, 0, <<>>)>>]

FragIds == DOMAIN Catalogue

\* The documents of at most MaxFrags fragments.
Htmls ==
  UNION {{FlatSeq([i \in 1..n |-> Catalogue[f[i]]]) : f \in [1..n -> FragIds]} : n \in 0..MaxFrags}

\* ------------------------------------------------------------- requests
\* The url query parameter of a request: missing, empty, not a URL, or a
\* URL of either scheme.
UrlParams == {None, Some(""), Some("ikke en url"),
              Some("http://example.no/"), Some("https://example.no/")}

\* new URL(url): <<>> when the constructor throws.
ParseUrlLenient(url) ==
  IF url = "https://example.no/"
  THEN Some([protocol |-> "https:", href |-> url])
  ELSE Some([protocol |-> "http:", href |-> url])
ParseUrl(url) ==
  CASE url = "http://example.no/" -> Some([protocol |-> "http:", href |-> url])
    [] url = "https://example.no/" -> Some([protocol |-> "https:", href |-> url])
    [] OTHER -> None

NoHeaders == [h \in {} |-> ""]
AllHeaders ==
  ("strict-transport-security" :> "max-age=31536000")
  @@ ("content-security-policy" :> "default-src 'self'")
  @@ ("x-frame-options" :> "DENY")
  @@ ("x-content-type-options" :> "nosniff")
FrameAncestorsOnly ==
  ("content-security-policy" :> "default-src 'self'; frame-ancestors 'none'")

\* What fetch can resolve with: the page's status and headers.
Responses ==
  {[status |-> 200, headers |-> AllHeaders],
   [status |-> 200, headers |-> FrameAncestorsOnly],
   [status |-> 200, headers |-> NoHeaders],
   [status |-> 404, headers |-> NoHeaders]}
\* Date.now() - startTime
ResponseTimes == {120, 3500}
\* What makes fetch or response.text() reject.
FetchFailures == {"network error", "timeout"}

VARIABLES
  pc,            \* where the GET handler stands
  request,       \* the url query parameter of the request
  fetchCount,    \* calls of fetch made for the request
  fetched,       \* the response fetch resolved with, if any
  responseTime,  \* Date.now() - startTime
  html,          \* the text of the fetched page, if read
  resources,     \* extractResources(html), if computed
  results,       \* the analyzer results, if computed
  response       \* the Response returned to the caller, if any

\* The state of the browser-side utilities: listener scopes, the cleanup
\* registry, and the debounce and throttle wrappers with the timers and
\* the clock of the event loop.
VARIABLES
  scopes,             \* per listener scope: cleanedUp, and the calls of controller.abort()
  targets,            \* per event target: its event listener list
  componentCleanups,  \* the registry Map, entries in insertion order
  timeoutId,          \* the timeoutId of the debounce closure
  inThrottle,         \* the inThrottle of the throttle closure
  timers,             \* the pending timeouts of the event loop
  now,                \* the clock, in milliseconds
  calls,              \* the calls made so far (history)
  invoked,            \* the callbacks invoked so far (history)
  value,              \* the argument of the call of sanitizeCss
  sanitized           \* what that call returned

domVars == <<pc, request, fetchCount, fetched, responseTime, html, resources, results, response>>
utilVars == <<scopes, targets, componentCleanups, timeoutId, inThrottle, timers, now, calls, invoked,
              value, sanitized>>
vars == <<domVars, utilVars>>

\* No utility is in use.
UtilIdle ==
  /\ scopes = <<>>
  /\ targets = <<>>
  /\ componentCleanups = <<>>
  /\ timeoutId = None
  /\ inThrottle = FALSE
  /\ timers = {}
  /\ now = 0
  /\ calls = <<>>
  /\ invoked = <<>>
  /\ value = None
  /\ sanitized = None

JsonResponse(status, body) == Some([status |-> status, body |-> body])

Init ==
  /\ UtilIdle
  /\ pc = "start"
  /\ request \in UrlParams
  /\ fetchCount = 0
  /\ fetched = None
  /\ responseTime = 0
  /\ html = None
  /\ resources = None
  /\ results = None
  /\ response = None

\* if (!url) return 400
GetMissingUrl ==
  /\ pc = "start"
  /\ ~IsSome(request) \/ request = Some("")
  /\ response' = JsonResponse(400, [error |-> "URL mangler"])
  /\ pc' = "done"
  /\ UNCHANGED <<utilVars, request, fetchCount, fetched, responseTime, html, resources, results>>

\* new URL(url) throws: return 400
GetInvalidUrl ==
  /\ pc = "start"
  /\ IsSome(request) /\ request # Some("")
  /\ ~IsSome(ParseUrl(request[1]))
  /\ response' = JsonResponse(400, [error |-> "Ugyldig URL-format"])
  /\ pc' = "done"
  /\ UNCHANGED <<utilVars, request, fetchCount, fetched, responseTime, html, resources, results>>

\* await fetch(url, ...): the call is made and the handler suspends
GetFetch ==
  /\ pc = "start"
  /\ IsSome(request) /\ request # Some("")
  /\ IsSome(ParseUrl(request[1]))
  /\ fetchCount' = fetchCount + 1
  /\ pc' = "fetching"
  /\ UNCHANGED <<utilVars, request, fetched, responseTime, html, resources, results, response>>

\* the catch block: log, return 500
Caught ==
  /\ response' = JsonResponse(500, [error |-> "Kunne ikke analysere URL. Sjekk at nettsiden er tilgjengelig."])
  /\ pc' = "done"

\* fetch rejects
FetchRejects ==
  /\ pc = "fetching"
  /\ \E why \in FetchFailures : Caught
  /\ UNCHANGED <<utilVars, request, fetchCount, fetched, responseTime, html, resources, results>>

\* fetch resolves, with any status: the handler does not read response.ok
FetchResolves ==
  /\ pc = "fetching"
  /\ \E r \in Responses, t \in ResponseTimes :
        /\ fetched' = Some(r)
        /\ responseTime' = t
  /\ pc' = "reading"
  /\ UNCHANGED <<utilVars, request, fetchCount, html, resources, results, response>>

\* response.text() rejects
TextRejects ==
  /\ pc = "reading"
  /\ Caught
  /\ UNCHANGED <<utilVars, request, fetchCount, fetched, responseTime, html, resources, results>>

\* response.text() resolves: extract, analyze, aggregate, return 200
TextResolves ==
  /\ pc = "reading"
  /\ \E doc \in Htmls :
       \E res \in {extractResources(doc)} :
          \E r \in {Analyze(responseTime, doc, res, ParseUrl(request[1])[1], fetched[1].headers)} :
             \E totalScore \in RoundedHundredths(
                                  WeightedSum(r.performance.score, r.seo.score, r.security.score,
                                              r.mobile.score, r.accessibility.score)) :
                /\ html' = Some(doc)
                /\ resources' = Some(res)
                /\ results' = Some(r)
                /\ response' = JsonResponse(200, Report(request[1], responseTime, totalScore, r))
  /\ pc' = "done"
  /\ UNCHANGED <<utilVars, request, fetchCount, fetched, responseTime>>

Next ==
  \/ GetMissingUrl
  \/ GetInvalidUrl
  \/ GetFetch
  \/ FetchRejects
  \/ FetchResolves
  \/ TextRejects
  \/ TextResolves

Spec == Init /\ [][Next]_vars

\* ------------------------------------------- analyzers called directly
\* analyzePerformance takes any inventory, not only those extractResources
\* builds: script records of every kind, pushed in any order.
ScriptKinds ==
  {[src |-> Some("/js/app.js"), isInline |-> FALSE, isAsync |-> FALSE, isDefer |-> FALSE, isModule |-> FALSE],
   [src |-> Some("/js/lib.js"), isInline |-> FALSE, isAsync |-> TRUE, isDefer |-> FALSE, isModule |-> FALSE],
   [src |-> Some("/js/late.js"), isInline |-> FALSE, isAsync |-> FALSE, isDefer |-> TRUE, isModule |-> FALSE],
   [src |-> None, isInline |-> TRUE, isAsync |-> FALSE, isDefer |-> FALSE, isModule |-> FALSE]}

\* The rest of the inventory: nothing, or enough to set off every other
\* inventory rule of analyzePerformance; AnalyzeInit also starts from the
\* latter with twenty async scripts extracted from a page.
EmptyInventory ==
  [scripts |-> <<>>, stylesheets |-> <<>>, images |-> <<>>, fonts |-> <<>>, iframes |-> <<>>]
HeavyInventory ==
  [scripts |-> <<>>,
   stylesheets |-> Rep(9, <<[href |-> "/a.css", isPreload |-> FALSE]>>),
   images |-> Rep(9, <<ImageRecord(ImgBare)>>),
   fonts |-> <<>>,
   iframes |-> <<IframeRecord(Open("iframe", <<Attr("src", "/map")>>))>>]

AnalyzeInit ==
  /\ UtilIdle
  /\ pc = "building"
  /\ request = None
  /\ fetchCount = 0
  /\ fetched = None
  /\ responseTime \in ResponseTimes
  /\ html \in {Some(<<>>), Some(Catalogue.padding)}
  /\ resources \in {Some(EmptyInventory), Some(HeavyInventory),
                    Some([HeavyInventory EXCEPT
                            !.scripts = Rep(20, <<ScriptRecord(ScriptAsync)>>)])}
  /\ results = None
  /\ response = None

\* resources.scripts.push(record): at most MaxScripts records are pushed
\* onto those the inventory starts with (extracted ones, which ScriptKinds
\* has none of).
PushScript ==
  /\ pc = "building"
  /\ Len(SelectSeq(resources[1].scripts, LAMBDA rec : rec \in ScriptKinds)) < MaxScripts
  /\ \E rec \in ScriptKinds :
        resources' = Some([resources[1] EXCEPT !.scripts = Append(@, rec)])
  /\ UNCHANGED <<utilVars, pc, request, fetchCount, fetched, responseTime, html, results, response>>

\* analyzePerformance(responseTime, html, resources)
CallAnalyzePerformance ==
  /\ pc = "building"
  /\ \E r \in {analyzePerformance(responseTime, html[1], resources[1])} :
        results' = Some([performance |-> r])
  /\ pc' = "returned"
  /\ UNCHANGED <<utilVars, request, fetchCount, fetched, responseTime, html, resources, response>>

AnalyzeNext == PushScript \/ CallAnalyzePerformance

SpecAnalyze == AnalyzeInit /\ [][AnalyzeNext]_vars

\* ------------------------------------ analyzers evaluated in any schedule
\* The rules of each analyzer body in source order, each with the pushes it
\* makes for the inputs in.
Rules(c, in) ==
  CASE c = "performance" ->
         <<PerfResponseTime(in.responseTime),
           PerfHtmlSize(in.html),
           PerfBlocking(BlockingScripts(in.resources)),
           PerfTotalScripts(Len(in.resources.scripts)),
           PerfStylesheets(Len(in.resources.stylesheets)),
           PerfImages(in.resources.images),
           PerfIframes(in.resources.iframes)>>
    [] c = "seo" ->
         <<SeoTitle(in.html), SeoDescription(in.html), SeoH1(in.html), SeoCanonical(in.html),
           SeoOpenGraph(in.html), SeoImageAlt(in.html), SeoStructuredData(in.html),
           SeoLang(in.html)>>
    [] c = "security" ->
         <<SecHttps(in.parsedUrl), SecHsts(in.headers), SecCsp(in.headers),
           SecClickjacking(in.headers), SecNosniff(in.headers),
           SecMixedContent(in.parsedUrl, in.html)>>
    [] c = "mobile" ->
         <<MobViewport(in.html), MobResponsiveImages(in.html), MobMediaQueries(in.html),
           MobManifest(in.html), MobTouchIcon(in.html)>>
    [] c = "accessibility" ->
         <<AccLang(in.html), AccImageAlt(in.html), AccLandmarks(in.html), AccH1(in.html)>>

\* The pushes one call of analyzer c makes, in execution order.
Statements(c, in) == FlatSeq(Rules(c, in))

\* let score = 100; const details = []; const issues = []: the locals of one
\* analyzer call.  result is the returned object once the call has
\* returned, rank the number of calls that returned before it (history).
NewFrame == [score |-> 100, details |-> <<>>, issues |-> <<>>, result |-> None, rank |-> 0]

\* One push of analyzer c: "score -= pts; issues.push(f)" or
\* "details.push(f)", on the locals of that call.
ExecuteOnSharedArrays(frames, c, st) ==
  [d \in DOMAIN frames |->
     [frames[d] EXCEPT !.score = IF d = c THEN @ - st.pts ELSE @,
                       !.details = IF st.list = "details" THEN Append(@, st.f) ELSE @,
                       !.issues = IF st.list = "issues" THEN Append(@, st.f) ELSE @]]
Execute(frames, c, st) ==
  [frames EXCEPT ![c].score = @ - st.pts,
                 ![c].details = IF st.list = "details" THEN Append(@, st.f) ELSE @,
                 ![c].issues = IF st.list = "issues" THEN Append(@, st.f) ELSE @]

\* return { score: Math.max(0, Math.min(100, score)), details: [...details, ...issues] }
ReturnValue(frame) ==
  [score |-> Clamp(frame.score), details |-> frame.details \o frame.issues]

\* The arguments GET passes to the analyzers.
Inputs ==
  [responseTime |-> responseTime, html |-> html[1], resources |-> resources[1],
   parsedUrl |-> ParseUrl(request[1])[1], headers |-> fetched[1].headers]

\* The pages pushed through the analyzers: fetched over plain http without
\* security headers or over https with all of them; empty, a complete
\* head, one bare image, or both.
ScheduleInit ==
  /\ UtilIdle
  /\ pc = [c \in Categories |-> 0]
  /\ \/ /\ request = Some("http://example.no/")
        /\ fetched = Some([status |-> 200, headers |-> NoHeaders])
     \/ /\ request = Some("https://example.no/")
        /\ fetched = Some([status |-> 200, headers |-> AllHeaders])
  /\ fetchCount = 1
  /\ responseTime = 3500
  /\ html \in {Some(<<>>), Some(Catalogue.head), Some(Catalogue.imgBare),
               Some(Catalogue.head \o Catalogue.imgBare)}
  /\ resources = Some(extractResources(html[1]))
  /\ results = Some([c \in Categories |-> NewFrame])
  /\ response = None

\* analyzer c executes its next push
Push(c) ==
  /\ ~IsSome(results[1][c].result)
  /\ \E sts \in {Statements(c, Inputs)} :
        /\ pc[c] < Len(sts)
        /\ results' = Some(Execute(results[1], c, sts[pc[c] + 1]))
  /\ pc' = [pc EXCEPT ![c] = @ + 1]
  /\ UNCHANGED <<utilVars, request, fetchCount, fetched, responseTime, html, resources, response>>

\* analyzer c has no push left and returns
Return(c) ==
  /\ ~IsSome(results[1][c].result)
  /\ pc[c] = Len(Statements(c, Inputs))
  /\ results' = Some([results[1] EXCEPT
                        ![c].result = Some(ReturnValue(results[1][c])),
                        ![c].rank = Cardinality({d \in Categories : IsSome(results[1][d].result)})])
  /\ UNCHANGED <<utilVars, pc, request, fetchCount, fetched, responseTime, html, resources, response>>

\* all five have returned: aggregate and respond
Respond ==
  /\ response = None
  /\ \A c \in Categories : IsSome(results[1][c].result)
  /\ \E r \in {[c \in Categories |-> results[1][c].result[1]]} :
        \E totalScore \in RoundedHundredths(
                             WeightedSum(r.performance.score, r.seo.score, r.security.score,
                                         r.mobile.score, r.accessibility.score)) :
           response' = JsonResponse(200, Report(request[1], responseTime, totalScore, r))
  /\ UNCHANGED <<utilVars, pc, request, fetchCount, fetched, responseTime, html, resources, results>>

ScheduleNext ==
  \/ \E c \in Categories : Push(c)
  \/ \E c \in Categories : Return(c)
  \/ Respond

SpecSchedule == ScheduleInit /\ [][ScheduleNext]_vars

\* ================================================== browser-side utilities
\* No audit is running.
DomIdle ==
  /\ pc = "idle"
  /\ request = None
  /\ fetchCount = 0
  /\ fetched = None
  /\ responseTime = 0
  /\ html = None
  /\ resources = None
  /\ results = None
  /\ response = None

\* ---------------------------------------------------- createListenerScope
\* The add and cleanup calls made on the scopes of a run.
MaxScopeCalls == 4

\* target.addEventListener(type, listener, {...options, signal}): nothing
\* when the signal is aborted already; the listener is appended unless the
\* list holds one of the same type and callback (the capture flag is the
\* default throughout), whatever signal that one was added with.  The
\* abort steps of the signal remove the listener appended here.
addEventListener(lists, target, type, listener, signal) ==
  IF scopes[signal].aborts > 0
  THEN lists
  ELSE IF \E i \in 1..Len(lists[target]) :
             lists[target][i].type = type /\ lists[target][i].listener = listener
       THEN lists
       ELSE [lists EXCEPT ![target] =
               Append(@, [type |-> type, listener |-> listener, signal |-> signal])]

\* controller.abort(): the abort steps remove every listener that was
\* appended with the controller's signal.
abort(lists, signal) ==
  [t \in DOMAIN lists |-> SelectSeq(lists[t], LAMBDA l : l.signal # signal)]

\* Two scopes returned by createListenerScope(), two event targets.
ScopeInit ==
  /\ DomIdle
  /\ scopes = [s \in {"a", "b"} |-> [cleanedUp |-> FALSE, aborts |-> 0]]
  /\ targets = [t \in {"window", "button"} |-> <<>>]
  /\ componentCleanups = <<>>
  /\ timeoutId = None
  /\ inThrottle = FALSE
  /\ timers = {}
  /\ now = 0
  /\ calls = <<>>
  /\ invoked = <<>>
  /\ value = None
  /\ sanitized = None

\* scope.add(target, type, listener)
Add(s, target, type, listener) ==
  /\ Len(calls) < MaxScopeCalls
  /\ calls' = Append(calls, [op |-> "add", scope |-> s, target |-> target, type |-> type,
                             listener |-> listener])
  /\ IF scopes[s].cleanedUp
     THEN targets' = targets
     ELSE targets' = addEventListener(targets, target, type, listener, s)
  /\ UNCHANGED <<domVars, value, sanitized, scopes, componentCleanups, timeoutId, inThrottle, timers, now, invoked>>

\* scope.cleanup()
Cleanup(s) ==
  /\ Len(calls) < MaxScopeCalls
  /\ calls' = Append(calls, [op |-> "cleanup", scope |-> s, target |-> "", type |-> "",
                             listener |-> ""])
  /\ IF ~scopes[s].cleanedUp
     THEN /\ targets' = abort(targets, s)
          /\ scopes' = [scopes EXCEPT ![s] = [cleanedUp |-> TRUE, aborts |-> @.aborts + 1]]
     ELSE UNCHANGED <<targets, scopes>>
  /\ UNCHANGED <<domVars, value, sanitized, componentCleanups, timeoutId, inThrottle, timers, now, invoked>>

ScopeNext ==
  \/ \E s \in DOMAIN scopes, t \in DOMAIN targets, type \in {"click", "scroll"},
        l \in {"handleClick", "handleScroll"} : Add(s, t, type, l)
  \/ \E s \in DOMAIN scopes : Cleanup(s)

SpecScope == ScopeInit /\ [][ScopeNext]_vars

\* ------------------------------------------------------ componentCleanups
\* The registry calls of a run.
MaxRegistryCalls == 5

\* The Map is empty when the module is loaded.
RegistryInit ==
  /\ DomIdle
  /\ scopes = <<>>
  /\ targets = <<>>
  /\ componentCleanups = <<>>
  /\ timeoutId = None
  /\ inThrottle = FALSE
  /\ timers = {}
  /\ now = 0
  /\ calls = <<>>
  /\ invoked = <<>>
  /\ value = None
  /\ sanitized = None

\* registerCleanup(componentId, cleanup): a new id gets an empty array at
\* the end of the Map, then the function is pushed.  A function stands in
\* the array as <<name, number of its registerCleanup call>>.
registerCleanup(componentId, cleanup) ==
  /\ Len(calls) < MaxRegistryCalls
  /\ calls' = Append(calls, [op |-> "registerCleanup", id |-> componentId, fn |-> cleanup])
  /\ \E withId \in {IF \E e \in 1..Len(componentCleanups) : componentCleanups[e].id = componentId
                    THEN componentCleanups
                    ELSE Append(componentCleanups, [id |-> componentId, fns |-> <<>>])} :
        componentCleanups' =
          [e \in 1..Len(withId) |->
             IF withId[e].id = componentId
             THEN [withId[e] EXCEPT !.fns = Append(@, <<cleanup, Len(calls) + 1>>)]
             ELSE withId[e]]
  /\ UNCHANGED <<domVars, value, sanitized, scopes, targets, timeoutId, inThrottle, timers, now, invoked>>

\* runCleanup(componentId): the functions of the id are called in array
\* order and the id is deleted; nothing when the Map has no such id.
runCleanupKeepsEntry(componentId) ==
  /\ Len(calls) < MaxRegistryCalls
  /\ calls' = Append(calls, [op |-> "runCleanup", id |-> componentId, fn |-> ""])
  /\ \E hit \in {SelectSeq(componentCleanups, LAMBDA e : e.id = componentId)} :
        IF hit # <<>>
        THEN /\ invoked' = invoked \o [k \in 1..Len(hit[1].fns) |->
                                         [fn |-> hit[1].fns[k][1], reg |-> hit[1].fns[k][2],
                                          by |-> Len(calls) + 1]]
             /\ componentCleanups' = componentCleanups
        ELSE UNCHANGED <<invoked, componentCleanups>>
  /\ UNCHANGED <<domVars, value, sanitized, scopes, targets, timeoutId, inThrottle, timers, now>>
runCleanup(componentId) ==
  /\ Len(calls) < MaxRegistryCalls
  /\ calls' = Append(calls, [op |-> "runCleanup", id |-> componentId, fn |-> ""])
  /\ \E hit \in {SelectSeq(componentCleanups, LAMBDA e : e.id = componentId)} :
        IF hit # <<>>
        THEN /\ invoked' = invoked \o [k \in 1..Len(hit[1].fns) |->
                                         [fn |-> hit[1].fns[k][1], reg |-> hit[1].fns[k][2],
                                          by |-> Len(calls) + 1]]
             /\ componentCleanups' = SelectSeq(componentCleanups, LAMBDA e : e.id # componentId)
        ELSE UNCHANGED <<invoked, componentCleanups>>
  /\ UNCHANGED <<domVars, value, sanitized, scopes, targets, timeoutId, inThrottle, timers, now>>

\* runAllCleanups(): every array in Map order, every function in array
\* order, then clear().
runAllCleanups ==
  /\ Len(calls) < MaxRegistryCalls
  /\ calls' = Append(calls, [op |-> "runAllCleanups", id |-> "", fn |-> ""])
  /\ invoked' = invoked \o
       FlatSeq([e \in 1..Len(componentCleanups) |->
                  [k \in 1..Len(componentCleanups[e].fns) |->
                     [fn |-> componentCleanups[e].fns[k][1], reg |-> componentCleanups[e].fns[k][2],
                      by |-> Len(calls) + 1]]])
  /\ componentCleanups' = <<>>
  /\ UNCHANGED <<domVars, value, sanitized, scopes, targets, timeoutId, inThrottle, timers, now>>

RegistryNext ==
  \/ \E id \in {"nav", "hero"}, fn \in {"stopTimer", "disconnect"} : registerCleanup(id, fn)
  \/ \E id \in {"nav", "hero", "footer"} : runCleanup(id)
  \/ runAllCleanups

SpecRegistry == RegistryInit /\ [][RegistryNext]_vars

\* ------------------------------------------------------ debounce, throttle
\* The delay of debounce(fn, delay) and the limit of throttle(fn, limit), in
\* milliseconds; the calls of the wrapper and the milliseconds of a run.
delay == 2
limit == 2
MaxWrapperCalls == 3
MaxTime == 7

\* A wrapper was made by debounce(fn, delay) or throttle(fn, limit) and has
\* not been called.
TimerInit == DomIdle /\ UtilIdle

\* A millisecond passes.  A due timeout does not hold the clock back: its
\* callback runs when the event loop gets to it.
Tick ==
  /\ now < MaxTime
  /\ now' = now + 1
  /\ UNCHANGED <<domVars, value, sanitized, scopes, targets, componentCleanups, timeoutId, inThrottle, timers,
                 calls, invoked>>

\* The event loop runs the callback of a timeout that is due:
\* () => fn(...args) of debounce, () => (inThrottle = false) of throttle.
TimeoutFires ==
  /\ \E t \in timers :
        /\ t.due <= now
        /\ timers' = timers \ {t}
        /\ IF t.of = "debounce"
           THEN /\ invoked' = Append(invoked, [at |-> now, args |-> t.args, call |-> t.id,
                                               n |-> Len(calls)])
                /\ UNCHANGED inThrottle
           ELSE /\ inThrottle' = FALSE
                /\ UNCHANGED invoked
  /\ UNCHANGED <<domVars, value, sanitized, scopes, targets, componentCleanups, timeoutId, now, calls>>

\* The debounced wrapper is called: if (timeoutId) clearTimeout(timeoutId);
\* timeoutId = setTimeout(() => fn(...args), delay).  The id of a timeout is
\* the number of the call that set it; the call is logged with the id of the
\* pending timeout it cleared, 0 when none was pending.
CallDebouncedNoClear(args) ==
  /\ Len(calls) < MaxWrapperCalls
  /\ calls' = Append(calls, [at |-> now, args |-> args, fn |-> "returns", cleared |-> 0])
  /\ timers' = timers \cup {[id |-> Len(calls) + 1, due |-> now + delay, of |-> "debounce",
                             args |-> args]}
  /\ timeoutId' = Some(Len(calls) + 1)
  /\ UNCHANGED <<domVars, value, sanitized, scopes, targets, componentCleanups, inThrottle, now, invoked>>
CallDebounced(args) ==
  /\ Len(calls) < MaxWrapperCalls
  /\ calls' = Append(calls, [at |-> now, args |-> args, fn |-> "returns",
                            cleared |-> IF IsSome(timeoutId) /\ \E t \in timers : t.id = timeoutId[1]
                                        THEN timeoutId[1] ELSE 0])
  /\ timers' = {t \in timers : ~(IsSome(timeoutId) /\ t.id = timeoutId[1])}
                 \cup {[id |-> Len(calls) + 1, due |-> now + delay, of |-> "debounce",
                        args |-> args]}
  /\ timeoutId' = Some(Len(calls) + 1)
  /\ UNCHANGED <<domVars, value, sanitized, scopes, targets, componentCleanups, inThrottle, now, invoked>>

\* The throttled wrapper is called: if (!inThrottle) { fn(...args);
\* inThrottle = true; setTimeout(() => (inThrottle = false), limit) }.
\* fn returns, or throws and ends the call before the flag is set.
CallThrottled(args, fn) ==
  /\ Len(calls) < MaxWrapperCalls
  /\ calls' = Append(calls, [at |-> now, args |-> args, fn |-> fn, cleared |-> 0])
  /\ IF ~inThrottle
     THEN /\ invoked' = Append(invoked, [at |-> now, args |-> args, call |-> Len(calls) + 1,
                                         n |-> Len(calls) + 1])
          /\ IF fn = "returns"
             THEN /\ inThrottle' = TRUE
                  /\ timers' = timers \cup {[id |-> Len(calls) + 1, due |-> now + limit,
                                             of |-> "throttle", args |-> args]}
             ELSE UNCHANGED <<inThrottle, timers>>
     ELSE UNCHANGED <<invoked, inThrottle, timers>>
  /\ UNCHANGED <<domVars, value, sanitized, scopes, targets, componentCleanups, timeoutId, now>>

DebounceNext ==
  \/ Tick
  \/ TimeoutFires
  \/ \E args \in {"x", "y"} : CallDebounced(args)

ThrottleNext ==
  \/ Tick
  \/ TimeoutFires
  \/ \E args \in {"x", "y"}, fn \in {"returns", "throws"} : CallThrottled(args, fn)

SpecDebounce == TimerInit /\ [][DebounceNext]_vars
SpecThrottle == TimerInit /\ [][ThrottleNext]_vars

\* ------------------------------------------------------------ sanitizeCss
\* A string is the sequence of its characters.  The values passed to
\* sanitizeCss are made of at most MaxCssFrags of these pieces.
MaxCssFrags == 3
CssFragments ==
  { <<"r", "e", "d">>,
    <<";">>,
    <<"{">>,
    <<" ">>,
    <<"(">>,
    <<"u", "r", "l">>,
    <<"j", "a", "v", "a">>,
    <<"s", "c", "r", "i", "p", "t", ":">>,
    <<"J", "a", "v", "a", "S", "c", "r", "i", "p", "t", ":">>,
    <<"e", "x", "p", "r", "e", "s", "s">>,
    <<"i", "o", "n">> }

\* The i flag of a regular expression, on the letters the values use.
IgnoreCase(c) == CASE c = "J" -> "j" [] c = "S" -> "s" [] OTHER -> c

\* The length of the match of a pattern of sanitizeCss that starts at
\* position i of s, 0 when there is none: /expression\s*\(/i, /url\s*\(/i
\* and /javascript:/i.
MatchLen(s, i, pattern) ==
  LET word == CASE pattern = "expression" -> <<"e", "x", "p", "r", "e", "s", "s", "i", "o", "n">>
                [] pattern = "url" -> <<"u", "r", "l">>
                [] pattern = "javascript" -> <<"j", "a", "v", "a", "s", "c", "r", "i", "p", "t", ":">>
      p == i + Len(word)
      spaces == CHOOSE k \in 0..Len(s) :
                  /\ \A j \in 0..(k - 1) : p + j <= Len(s) /\ s[p + j] \in {" ", "\t", "\n"}
                  /\ ~(p + k <= Len(s) /\ s[p + k] \in {" ", "\t", "\n"})
  IN  IF p - 1 > Len(s) \/ [j \in 1..Len(word) |-> IgnoreCase(s[i + j - 1])] # word THEN 0
      ELSE IF pattern = "javascript" THEN Len(word)
      ELSE IF p + spaces <= Len(s) /\ s[p + spaces] = "(" THEN Len(word) + spaces + 1
      ELSE 0

\* String.prototype.replace with a global pattern, from position i on: one
\* pass from left to right, the text after a match is searched next.
RECURSIVE ReplaceAll(_, _, _)
ReplaceAll(s, i, pattern) ==
  IF i > Len(s) THEN <<>>
  ELSE IF MatchLen(s, i, pattern) > 0
       THEN (IF pattern = "url" THEN <<"u", "r", "l", "(">> ELSE <<>>)
              \o ReplaceAll(s, i + MatchLen(s, i, pattern), pattern)
       ELSE <<s[i]>> \o ReplaceAll(s, i + 1, pattern)

\* sanitizeCss(value): value is None for null and undefined.
sanitizeCss(v) ==
  IF v = None THEN <<>>
  ELSE ReplaceAll(
         ReplaceAll(
           ReplaceAll(SelectSeq(v[1], LAMBDA c : c \notin {";", "<", ">", "{", "}"}),
                      1, "expression"),
           1, "url"),
         1, "javascript")

\* sanitizeCss is about to be called with null or with a string.
CssInit ==
  /\ DomIdle
  /\ scopes = <<>>
  /\ targets = <<>>
  /\ componentCleanups = <<>>
  /\ timeoutId = None
  /\ inThrottle = FALSE
  /\ timers = {}
  /\ now = 0
  /\ calls = <<>>
  /\ invoked = <<>>
  /\ \E n \in 0..MaxCssFrags :
        value \in {Some(None)} \cup {Some(Some(FlatSeq(fs))) : fs \in [1..n -> CssFragments]}
  /\ sanitized = None

\* The call returns.
Sanitize ==
  /\ IsSome(value)
  /\ sanitized = None
  /\ sanitized' = Some(sanitizeCss(value[1]))
  /\ UNCHANGED <<domVars, scopes, targets, componentCleanups, timeoutId, inThrottle, timers,
                 now, calls, invoked, value>>

\* The caller passes the result to sanitizeCss once more.
Reapply ==
  /\ IsSome(sanitized)
  /\ value # Some(Some(sanitized[1]))
  /\ value' = Some(Some(sanitized[1]))
  /\ sanitized' = None
  /\ UNCHANGED <<domVars, scopes, targets, componentCleanups, timeoutId, inThrottle, timers,
                 now, calls, invoked>>

CssNext ==
  \/ Sanitize
  \/ Reapply

SpecCss == CssInit /\ [][CssNext]_vars

\* =============================================================== claims
Returned(status) == IsSome(response) /\ response[1].status = status
Analyzed == IsSome(results)
Severities == {"critical", "warning", "info"}

\* Position of a finding in a details list (0 when absent).
PosIn(details, f) ==
  IF \E i \in 1..Len(details) : details[i] = f
  THEN CHOOSE i \in 1..Len(details) : details[i] = f
  ELSE 0

\* C1: the score every analyzer returns is an integer in 0..100.
C1_ScoresInRange ==
  Analyzed => \A c \in DOMAIN results[1] : results[1][c].score \in 0..100

\* C1 witness: a fetched page was analyzed, one category lost nothing and
\* another lost every point its rules can take.
C1_Witness ==
  /\ Analyzed
  /\ pc = "done"
  /\ results[1].performance.score = 100
  /\ results[1].security.score = 34

\* The weighted sum of a report's own category scores, in hundredths.
ReportWeightedSum ==
  LET c == response[1].body.categories
  IN 25 * c["performance"].score + 25 * c["seo"].score + 20 * c["security"].score
     + 15 * c["mobile"].score + 15 * c["accessibility"].score

\* C2: totalScore of a report is the weighted sum (25/25/20/15/15 percent)
\* of that report's category scores rounded to a nearest integer, the
\* weights add up to 100 percent, and totalScore is in 0..100.
C2_TotalIsRoundedWeightedSum ==
  Returned(200) =>
    /\ 25 + 25 + 20 + 15 + 15 = 100
    /\ response[1].body.totalScore \in 0..100
    /\ 100 * response[1].body.totalScore - ReportWeightedSum \in -50..50

\* C2 witness: a report whose weighted sum is no whole number and whose
\* category scores differ, so that the weights and the rounding matter.
C2_Witness ==
  /\ Returned(200)
  /\ ReportWeightedSum % 100 > 50
  /\ response[1].body.categories["performance"].score
       # response[1].body.categories["security"].score
  /\ response[1].body.categories["mobile"].score
       # response[1].body.categories["seo"].score

\* The status the claim assigns to a score.
StatedStatus(score) ==
  CASE score >= 90 -> "green"
    [] score >= 70 /\ score <= 89 -> "yellow"
    [] score >= 50 /\ score <= 69 -> "orange"
    [] OTHER -> "red"
StatusRank(status) ==
  CASE status = "green" -> 3 [] status = "yellow" -> 2 [] status = "orange" -> 1 [] OTHER -> 0

\* C3: every score in 0..100 has exactly the status of its band (green
\* >= 90, yellow 70..89, orange 50..69, red < 50), a higher score never
\* has a worse status, the endpoint's getStatus and the client's
\* getScoreColorClass agree on every score, and each category of a report
\* carries the status of its own score.
C3_StatusMapping ==
  /\ \A score \in 0..100 :
        /\ getStatus(score) = StatedStatus(score)
        /\ getScoreColorClass(score) = getStatus(score)
  /\ \A score \in 0..99 :
        StatusRank(getStatus(score)) <= StatusRank(getStatus(score + 1))
  /\ Returned(200) =>
        \A c \in Categories :
           /\ response[1].body.categories[c].status
                = StatedStatus(response[1].body.categories[c].score)
           /\ getScoreColorClass(response[1].body.categories[c].score)
                = response[1].body.categories[c].status

\* C3 witness: one report shows all four statuses.
C3_Witness ==
  /\ Returned(200)
  /\ {response[1].body.categories[c].status : c \in Categories}
       = {"green", "yellow", "orange", "red"}

\* C4 (as claimed): every <script ...> tag yields one record; with an
\* src="..." attribute the record has that src and isInline false, without
\* one src is absent and isInline is true.
C4_ScriptSrcRead ==
  (pc = "done" /\ IsSome(resources)) =>
    LET tags == OpenTags(html[1], "script")
        recs == resources[1].scripts
    IN /\ Len(recs) = Len(tags)
       /\ \A i \in 1..Len(tags) :
             LET srcs == QuotedAny(tags[i], "src", TRUE)
             IN /\ srcs # {} => /\ recs[i].src = Some(tags[i].attrs[SetMin(srcs)].v)
                                /\ ~recs[i].isInline
                /\ srcs = {} => /\ recs[i].src = None
                                /\ recs[i].isInline
                /\ recs[i].isInline <=> srcs = {}

\* Steps of a result that belong to a rule.
StepsOf(result, rule) ==
  {i \in 1..Len(result.emitted) : result.emitted[i].rule = rule}

\* The inventory with every script marked async: no script blocks, every
\* other count is unchanged.
AllScriptsAsync(inv) ==
  [inv EXCEPT !.scripts = [i \in 1..Len(inv.scripts) |-> [inv.scripts[i] EXCEPT !.isAsync = TRUE]]]

\* C5: the blocking-script count of analyzePerformance is the number of
\* script records that are not inline, not async and not defer; above 5
\* the rule takes exactly 12 points and emits exactly one critical
\* finding, whatever the other rules do.
C5_BlockingScripts ==
  (pc = "returned") =>
    LET inv == resources[1]
        r == results[1].performance
        n == Cardinality({i \in 1..Len(inv.scripts) :
                             /\ inv.scripts[i].isInline = FALSE
                             /\ inv.scripts[i].isAsync = FALSE
                             /\ inv.scripts[i].isDefer = FALSE})
        steps == StepsOf(r, "blockingScripts")
    IN /\ r.metrics.blockingScripts = n
       /\ n > 5 =>
            /\ Cardinality(steps) = 1
            /\ \A i \in steps :
                  /\ r.emitted[i].pts = 12
                  /\ r.emitted[i].f.severity = Some("critical")
                  /\ Cardinality({j \in 1..Len(r.details) : r.details[j] = r.emitted[i].f}) = 1
            /\ r.score = analyzePerformance(responseTime, html[1], AllScriptsAsync(inv)).score - 12

\* C5 witness: six blocking scripts among other rules that fire.
C5_Witness ==
  /\ pc = "returned"
  /\ results[1].performance.metrics.blockingScripts = 6
  /\ Len(resources[1].images) = 9
  /\ responseTime > 3000
  /\ results[1].performance.score = 100 - 25 - 12 - 8 - 6 - 5 - 5 - 3

\* C6 (as claimed): in every category result a finding emitted earlier
\* stands earlier in the findings list, success or issue alike.
C6_EmissionOrder ==
  Analyzed =>
    \A c \in DOMAIN results[1] :
       LET r == results[1][c]
       IN \A i \in 1..Len(r.emitted) : \A j \in i + 1..Len(r.emitted) :
             PosIn(r.details, r.emitted[i].f) < PosIn(r.details, r.emitted[j].f)

\* C6 (amended): the findings list holds every success in emission order,
\* then every issue in emission order.
C6_SuccessesThenIssues ==
  Analyzed =>
    \A c \in DOMAIN results[1] :
       LET r == results[1][c]
       IN /\ Len(r.details) = Len(r.emitted)
          /\ \A i \in 1..Len(r.emitted) : PosIn(r.details, r.emitted[i].f) > 0
          /\ \A i \in 1..Len(r.emitted) : \A j \in 1..Len(r.emitted) :
                LET si == IsSome(r.emitted[i].f.type)
                    sj == IsSome(r.emitted[j].f.type)
                    before == PosIn(r.details, r.emitted[i].f) < PosIn(r.details, r.emitted[j].f)
                IN /\ (si /\ ~sj) => before
                   /\ (si = sj /\ i < j) => before

\* C6 witness: an issue was emitted before a success of the same category.
C6_Witness ==
  /\ Analyzed
  /\ pc = "done"
  /\ \E i \in 1..Len(results[1].security.emitted) :
        \E j \in i + 1..Len(results[1].security.emitted) :
           /\ IsSome(results[1].security.emitted[i].f.severity)
           /\ IsSome(results[1].security.emitted[j].f.type)

\* C7 (as claimed): SEO's missing-H1 penalty (10, critical) fires exactly
\* when Accessibility's missing-H1 penalty (5, warning) fires.
C7_H1ChecksAgree ==
  (pc = "done" /\ Analyzed) =>
    ((\E i \in StepsOf(results[1].seo, "h1") :
         /\ results[1].seo.emitted[i].pts = 10
         /\ results[1].seo.emitted[i].f.severity = Some("critical"))
     <=>
     (\E i \in StepsOf(results[1].accessibility, "h1") :
         /\ results[1].accessibility.emitted[i].pts = 5
         /\ results[1].accessibility.emitted[i].f.severity = Some("warning")))

\* C8 (as claimed): a fetch that fails - a rejected fetch or a page that
\* answers with a non-OK status - ends in status 500 with an error body,
\* and never in a report.
C8_FetchFailureIsGeneric ==
  (pc = "done" /\ fetchCount > 0
     /\ (~IsSome(fetched) \/ fetched[1].status \notin 200..299)) =>
    /\ Returned(500)
    /\ "error" \in DOMAIN response[1].body
    /\ ~Analyzed

\* The url parameter is missing or no URL.
BadUrlParam == request \in {None, Some(""), Some("ikke en url")}

\* C9: a request ends in exactly one of 400 (bad url parameter: error
\* body, no fetch, no extraction, no analysis), 500 (error body, no
\* category data) or 200 (a report with all five categories, each with
\* score, status, details and benchmark); fetch is called at most once.
C9_Outcomes ==
  /\ fetchCount <= 1
  /\ IsSome(response) <=> pc = "done"
  /\ pc = "done" =>
       /\ response[1].status \in {400, 500, 200}
       /\ response[1].status = 400 <=> BadUrlParam
       /\ response[1].status = 400 =>
            /\ DOMAIN response[1].body = {"error"}
            /\ fetchCount = 0
            /\ ~IsSome(fetched) /\ ~IsSome(html) /\ ~IsSome(resources) /\ ~Analyzed
       /\ response[1].status = 500 =>
            /\ DOMAIN response[1].body = {"error"}
            /\ fetchCount = 1
            /\ ~Analyzed
       /\ response[1].status = 200 =>
            /\ fetchCount = 1
            /\ DOMAIN response[1].body.categories = Categories
            /\ \A c \in Categories :
                  DOMAIN response[1].body.categories[c]
                    = {"score", "status", "details", "benchmark"}

\* C9 witnesses: each of the three outcomes is reached.
C9_Witness ==
  /\ Returned(200)
  /\ fetchCount = 1
  /\ Cardinality(DOMAIN response[1].body.categories) = 5

\* C10: every finding carries exactly one tag - type 'success' and no
\* severity, or a severity of critical, warning or info and no type; a
\* finding has a severity exactly when its step takes points; and a rule
\* that takes points emits no success.
C10_FindingTags ==
  Analyzed =>
    \A c \in DOMAIN results[1] :
       LET r == results[1][c]
       IN /\ \A i \in 1..Len(r.details) :
                \/ /\ r.details[i].type = Some("success")
                   /\ r.details[i].severity = None
                \/ /\ r.details[i].type = None
                   /\ IsSome(r.details[i].severity)
                   /\ r.details[i].severity[1] \in Severities
          /\ \A i \in 1..Len(r.emitted) :
                /\ IsSome(r.emitted[i].f.severity) <=> r.emitted[i].pts > 0
                /\ PosIn(r.details, r.emitted[i].f) > 0
          /\ \A i \in 1..Len(r.emitted) : \A j \in 1..Len(r.emitted) :
                (r.emitted[i].rule = r.emitted[j].rule /\ r.emitted[i].pts > 0)
                  => ~IsSome(r.emitted[j].f.type)
          /\ r.score = 100 - SumSeq([i \in 1..Len(r.emitted) |-> r.emitted[i].pts])

\* C10 witness: the viewport is present, its width rule succeeds and its
\* zoom rule takes points, next to image penalties that grow with a count.
C10_Witness ==
  /\ Analyzed
  /\ pc = "done"
  /\ StepsOf(results[1].mobile, "viewportWidth") # {}
  /\ StepsOf(results[1].mobile, "viewportZoom") # {}
  /\ \E i \in StepsOf(results[1].seo, "imageAlt") : results[1].seo.emitted[i].pts = 10

\* The results of the five calls made one after the other, as GET makes them.
Sequential ==
  Analyze(responseTime, html[1], resources[1], ParseUrl(request[1])[1], fetched[1].headers)

\* C11: in every schedule of the five analyzers each returned result has the
\* score and the findings of the sequential evaluation, the report has the
\* categories of the sequential report and a total rounded from the
\* sequential scores, and no step changes the html, the inventory, the
\* headers, the url or the response time.
C11_AnyScheduleSameResults ==
  /\ [](\E seq \in {Sequential} :
          /\ \A c \in Categories :
                IsSome(results[1][c].result) =>
                   /\ results[1][c].result[1].score = seq[c].score
                   /\ results[1][c].result[1].details = seq[c].details
          /\ IsSome(response) =>
                /\ response[1].body.categories
                     = Report(request[1], responseTime, 0, seq).categories
                /\ response[1].body.totalScore \in
                     RoundedHundredths(WeightedSum(seq.performance.score, seq.seo.score,
                                                   seq.security.score, seq.mobile.score,
                                                   seq.accessibility.score)))
  /\ [][/\ html' = html
        /\ resources' = resources
        /\ fetched' = fetched
        /\ request' = request
        /\ responseTime' = responseTime]_vars

\* C11 witness: a report was built after accessibility returned first and
\* performance last, with issues pushed in more than one analyzer.
C11_Witness ==
  /\ IsSome(response)
  /\ results[1]["accessibility"].rank = 0
  /\ results[1]["performance"].rank = 4
  /\ Len(results[1]["seo"].issues) > 1
  /\ Len(results[1]["security"].issues) > 1

\* recs holds, for the tags at the positions P of the document taken in
\* increasing order, the record F makes of each: one record per position.
InDocumentOrder(recs, P, F(_)) ==
  /\ Len(recs) = Cardinality(P)
  /\ \A i \in 1..Len(recs) :
        \E p \in P : /\ Cardinality({q \in P : q < p}) = i - 1
                     /\ recs[i] = F(html[1][p])

PageHasTag(name, n, v) ==
  \E i \in 1..Len(html[1]) :
     /\ html[1][i].k = "open" /\ html[1][i].name = name
     /\ \E a \in 1..Len(html[1][i].attrs) :
           html[1][i].attrs[a].n = n /\ html[1][i].attrs[a].v = v

\* The <img> tags of the analysed page that carry no alt attribute.
ImgsLackingAlt ==
  {i \in 1..Len(html[1]) :
      /\ html[1][i].k = "open" /\ html[1][i].name = "img"
      /\ \A a \in 1..Len(html[1][i].attrs) : html[1][i].attrs[a].n # "alt"}

\* A page without title, meta description, h1, canonical link, Open-Graph
\* tags and viewport meta, fetched over plain http without security headers.
BarePage ==
  /\ pc = "done" /\ Analyzed
  /\ \A i \in 1..Len(html[1]) :
        html[1][i].k = "open" => html[1][i].name \notin {"title", "h1"}
  /\ ~PageHasTag("meta", "name", "description")
  /\ ~PageHasTag("link", "rel", "canonical")
  /\ \A p \in {"og:title", "og:description", "og:image", "og:url"} :
        ~PageHasTag("meta", "property", p)
  /\ ~PageHasTag("meta", "name", "viewport")
  /\ request = Some("http://example.no/")
  /\ DOMAIN fetched[1].headers = {}

\* C13 (as claimed): a bare page with k >= 1 images lacking alt scores at
\* most 100-15-12-10-8-8-min(10, 2k) for SEO, at most 34 for Security and at
\* most 75 for Mobile, and none of the three scores is below 0.
C13_BarePageBounds ==
  (BarePage /\ ImgsLackingAlt # {}) =>
     /\ results[1].seo.score <= 100 - 15 - 12 - 10 - 8 - 8 - Min2(10, 2 * Cardinality(ImgsLackingAlt))
     /\ results[1].security.score <= 34
     /\ results[1].mobile.score <= 75
     /\ results[1].seo.score >= 0
     /\ results[1].security.score >= 0
     /\ results[1].mobile.score >= 0

\* The points the steps of one rule took from a result.
Taken(result, rule) ==
  SumSeq([i \in 1..Len(result.emitted) |->
            IF result.emitted[i].rule = rule THEN result.emitted[i].pts ELSE 0])

\* The steps of a rule that pushed a warning.
Warnings(result, rule) ==
  {i \in StepsOf(result, rule) : result.emitted[i].f.severity = Some("warning")}

\* C14 (as claimed): with n images lacking an alt attribute SEO takes
\* min(10, 2n) and Accessibility min(15, 3n), each with one warning when
\* n > 0 and none when n = 0; for the page whose only image is
\* <img src="x.jpg"> SEO takes 2, Accessibility 3 and Performance's
\* missing-dimensions rule does not fire.
C14_AltPenalties ==
  (pc = "done" /\ Analyzed) =>
     \E n \in {Cardinality(ImgsLackingAlt)} :
        /\ Taken(results[1].seo, "imageAlt") = Min2(10, 2 * n)
        /\ Taken(results[1].accessibility, "imageAlt") = Min2(15, 3 * n)
        /\ Cardinality(Warnings(results[1].seo, "imageAlt")) = (IF n > 0 THEN 1 ELSE 0)
        /\ Cardinality(Warnings(results[1].accessibility, "imageAlt")) = (IF n > 0 THEN 1 ELSE 0)
        /\ html[1] = <<ImgBare>> =>
              /\ Taken(results[1].seo, "imageAlt") = 2
              /\ Taken(results[1].accessibility, "imageAlt") = 3
              /\ StepsOf(results[1].performance, "imageDimensions") = {}

\* The script records of the inventory that are not inline, not async and
\* not defer.
BlockingRecords ==
  {i \in 1..Len(resources[1].scripts) :
      /\ resources[1].scripts[i].isInline = FALSE
      /\ resources[1].scripts[i].isAsync = FALSE
      /\ resources[1].scripts[i].isDefer = FALSE}

\* The blocking-script rule took 6 points with one warning, and the score
\* is 6 below that of the same inventory with no script blocking.
LowerBandTaken ==
  /\ Taken(results[1].performance, "blockingScripts") = 6
  /\ Cardinality(StepsOf(results[1].performance, "blockingScripts")) = 1
  /\ Cardinality(Warnings(results[1].performance, "blockingScripts")) = 1
  /\ results[1].performance.score
       = analyzePerformance(responseTime, html[1], AllScriptsAsync(resources[1])).score - 6

\* C15 (as claimed): with 2, 3, 4 or 5 blocking scripts analyzePerformance
\* takes exactly 6 points for the rule and emits one warning; with 0 or 1 it
\* takes nothing.
C15_LowerBandTwoToFive ==
  (pc = "returned") =>
     /\ Cardinality(BlockingRecords) \in 2..5 => LowerBandTaken
     /\ Cardinality(BlockingRecords) \in 0..1 =>
           StepsOf(results[1].performance, "blockingScripts") = {}

\* C15 (amended): with 3, 4 or 5 blocking scripts analyzePerformance takes
\* exactly 6 points for the rule and emits one warning; with 0, 1 or 2 it
\* takes nothing and emits nothing.
C15_LowerBandThreeToFive ==
  (pc = "returned") =>
     /\ Cardinality(BlockingRecords) \in 3..5 => LowerBandTaken
     /\ Cardinality(BlockingRecords) \in 0..2 =>
           /\ StepsOf(results[1].performance, "blockingScripts") = {}
           /\ results[1].performance.score
                = analyzePerformance(responseTime, html[1], AllScriptsAsync(resources[1])).score

\* C15 witness: three blocking scripts among async, defer and inline ones
\* in an inventory whose other rules fire, and the warning was pushed.
C15_Witness ==
  /\ pc = "returned"
  /\ Cardinality(BlockingRecords) = 3
  /\ Len(resources[1].scripts) = 6
  /\ Len(resources[1].images) = 9
  /\ LowerBandTaken

\* The least score each category can return.
Floor ==
  [performance |-> 13, seo |-> 29, security |-> 34, mobile |-> 49, accessibility |-> 66]

\* C16: the penalties of one analyzer call never add up to 100: every
\* score is 100 minus the points of the steps taken, no step gives points
\* back, Performance is at least 13, SEO 29, Security 34, Mobile 49 and
\* Accessibility 66, and the totalScore of a report is at least 35.
C16_PenaltiesBelowHundred ==
  /\ Analyzed =>
       \A c \in DOMAIN results[1] :
          \E r \in {results[1][c]} :
             /\ \A i \in 1..Len(r.emitted) : r.emitted[i].pts >= 0
             /\ SumSeq([i \in 1..Len(r.emitted) |-> r.emitted[i].pts]) < 100
             /\ r.score = 100 - SumSeq([i \in 1..Len(r.emitted) |-> r.emitted[i].pts])
             /\ r.score >= Floor[c]
  /\ Returned(200) => response[1].body.totalScore >= 35

\* C16 witness: a page of nine bare images fetched slowly over plain http
\* without security headers: SEO, Security, Mobile and Accessibility each
\* lost all they can lose.
C16_Witness ==
  /\ Returned(200)
  /\ results[1].seo.score = 29
  /\ results[1].security.score = 34
  /\ results[1].mobile.score = 49
  /\ results[1].accessibility.score = 66
  /\ results[1].performance.score = 59
  /\ response[1].body.totalScore = 46

\* The add calls made through scope s before its first cleanup call.
AddedBeforeCleanup(s) ==
  {i \in 1..Len(calls) :
      /\ calls[i].op = "add" /\ calls[i].scope = s
      /\ \A j \in 1..(i - 1) : ~(calls[j].op = "cleanup" /\ calls[j].scope = s)}

\* Scope s has had a cleanup call.
CleanupCalled(s) == \E j \in 1..Len(calls) : calls[j].op = "cleanup" /\ calls[j].scope = s

\* C17 (as claimed): a listener is registered on a target exactly when it
\* was added there through a scope before that scope's first cleanup and
\* the scope has had no cleanup since, whatever other scopes did; a scope
\* is cleaned up from its first cleanup call on, and its abort was
\* performed once then and never otherwise.
C17_ScopeIsolation ==
  /\ \A t \in DOMAIN targets, type \in {"click", "scroll"}, l \in {"handleClick", "handleScroll"} :
        (\E i \in 1..Len(targets[t]) : targets[t][i].type = type /\ targets[t][i].listener = l)
        <=>
        (\E s \in DOMAIN scopes :
            /\ ~CleanupCalled(s)
            /\ \E i \in AddedBeforeCleanup(s) :
                  calls[i].target = t /\ calls[i].type = type /\ calls[i].listener = l)
  /\ \A s \in DOMAIN scopes :
        /\ scopes[s].cleanedUp <=> CleanupCalled(s)
        /\ scopes[s].aborts = (IF CleanupCalled(s) THEN 1 ELSE 0)

\* The registerCleanup calls made so far, by the number of the call.
Registrations == {i \in 1..Len(calls) : calls[i].op = "registerCleanup"}

\* The calls after registration i that run it: runCleanup of its component
\* id, or runAllCleanups.
RunsAfter(i) ==
  {j \in (i + 1)..Len(calls) :
      \/ calls[j].op = "runAllCleanups"
      \/ calls[j].op = "runCleanup" /\ calls[j].id = calls[i].id}

\* Registration i stands in the registry, under its component id.
Pending(i) ==
  \E e \in 1..Len(componentCleanups) :
     /\ componentCleanups[e].id = calls[i].id
     /\ \E k \in 1..Len(componentCleanups[e].fns) :
           componentCleanups[e].fns[k] = <<calls[i].fn, i>>

\* C18: every registration is invoked exactly once, by the first runCleanup
\* of its component id or runAllCleanups that follows it, and stays in the
\* registry until then; nothing else is ever invoked; functions of one
\* component run in registration order; runCleanup(id) removes the entry of
\* id and leaves every other entry as it was, and changes nothing for an
\* unknown id; after runAllCleanups the registry is empty.
C18_CleanupsRunOnce ==
  /\ [](/\ \A i \in Registrations :
             \E ks \in {{k \in 1..Len(invoked) : invoked[k].reg = i}} :
                IF RunsAfter(i) = {}
                THEN ks = {} /\ Pending(i)
                ELSE /\ Cardinality(ks) = 1
                     /\ ~Pending(i)
                     /\ \A k \in ks : /\ invoked[k].fn = calls[i].fn
                                      /\ invoked[k].by \in RunsAfter(i)
                                      /\ \A j \in RunsAfter(i) : invoked[k].by <= j
        /\ \A k \in 1..Len(invoked) : invoked[k].reg \in Registrations
        /\ \A k1, k2 \in 1..Len(invoked) :
              (k1 < k2 /\ calls[invoked[k1].reg].id = calls[invoked[k2].reg].id)
                 => invoked[k1].reg < invoked[k2].reg
        /\ (calls # <<>> /\ calls[Len(calls)].op = "runAllCleanups") => componentCleanups = <<>>)
  /\ [][(Len(calls') > Len(calls) /\ calls'[Len(calls')].op = "runCleanup") =>
           /\ componentCleanups' =
                SelectSeq(componentCleanups, LAMBDA e : e.id # calls'[Len(calls')].id)
           /\ \A k \in (Len(invoked) + 1)..Len(invoked') :
                 calls[invoked'[k].reg].id = calls'[Len(calls')].id
           /\ (\A e \in 1..Len(componentCleanups) :
                  componentCleanups[e].id # calls'[Len(calls')].id) => invoked' = invoked]_vars

\* C18 witness: two functions of one component and one of another were
\* registered, runCleanup ran the two in order and left the third, and
\* runAllCleanups then ran the third and emptied the registry.
C18_Witness ==
  /\ Len(calls) = 5
  /\ calls[4].op = "runCleanup" /\ calls[5].op = "runAllCleanups"
  /\ Len(invoked) = 3
  /\ invoked[1].reg = 1 /\ invoked[2].reg = 3 /\ invoked[3].reg = 2
  /\ invoked[1].by = 4 /\ invoked[2].by = 4 /\ invoked[3].by = 5
  /\ componentCleanups = <<>>

\* ---------------------------------------------------------------- C19
\* The calls of the debounced wrapper that end a burst, a burst being
\* consecutive calls less than delay apart.
LastOfBurst(c) == c = Len(calls) \/ calls[c + 1].at - calls[c].at >= delay

\* The invocations of fn that the timeout of call c made.
InvocationsOf(c) == {k \in 1..Len(invoked) : invoked[k].call = c}

\* The timeout that call c set has fired or was cleared.
TimeoutGone(c) == \A t \in timers : t.id # c

\* C19 as stated: at most one timeout is pending; fn is invoked only by the
\* timeout of the last call of a burst, delay after that call and with its
\* arguments; and the last call of every burst has fn invoked exactly once.
C19_OncePerBurst ==
  /\ Cardinality(timers) <= 1
  /\ \A k \in 1..Len(invoked) :
        /\ LastOfBurst(invoked[k].call)
        /\ invoked[k].args = calls[invoked[k].call].args
        /\ invoked[k].at = calls[invoked[k].call].at + delay
  /\ \A c \in 1..Len(calls) :
        LastOfBurst(c) /\ TimeoutGone(c) => Cardinality(InvocationsOf(c)) = 1

\* The timeout that call c set was cleared by a later call.
Cleared(c) == \E d \in 1..Len(calls) : calls[d].cleared = c

\* C19, amended: at most one timeout is pending, that of the latest call;
\* a call never invokes fn itself; an invocation is made by the timeout of
\* the call that was the latest one at that moment, no earlier than delay
\* after it and with its arguments; a call followed by another call less
\* than delay later has its timeout cleared; a call whose timeout was cleared
\* never has fn invoked, and every other call has fn invoked exactly once,
\* when its timeout fires.
C19_OncePerRun ==
  /\ [](/\ Cardinality(timers) <= 1
        /\ \A t \in timers : t.id = Len(calls) /\ timeoutId = Some(t.id)
        /\ \A k \in 1..Len(invoked) :
              /\ invoked[k].call = invoked[k].n
              /\ invoked[k].args = calls[invoked[k].call].args
              /\ invoked[k].at >= calls[invoked[k].call].at + delay
        /\ \A c \in 1..Len(calls) :
              /\ c < Len(calls) /\ calls[c + 1].at - calls[c].at < delay => Cleared(c)
              /\ Cardinality(InvocationsOf(c)) = IF TimeoutGone(c) /\ ~Cleared(c) THEN 1 ELSE 0)
  /\ [][Len(calls') > Len(calls) => invoked' = invoked]_vars

\* Two calls delay apart or more, the second one made before the timeout of
\* the first had fired: fn was invoked once, with the arguments of the second.
C19_Witness ==
  /\ Len(calls) = 2
  /\ calls[2].at - calls[1].at >= delay
  /\ calls[1].args # calls[2].args
  /\ Cleared(1)
  /\ InvocationsOf(1) = {}
  /\ InvocationsOf(2) = {1}
  /\ timers = {}

\* ---------------------------------------------------------------- C20
\* C20: the first call of the throttled wrapper invokes fn at once with its
\* arguments; every invocation of fn is made by a call, at the time of that
\* call and with its arguments, and no call has fn invoked twice (a discarded
\* call is never passed on later); any two invocations of fn are at least
\* limit apart.
C20_InvocationsLimitApart ==
  /\ calls # <<>> => invoked # <<>> /\ invoked[1].call = 1
  /\ \A k \in 1..Len(invoked) :
        /\ invoked[k].args = calls[invoked[k].call].args
        /\ invoked[k].at = calls[invoked[k].call].at
        /\ \A j \in 1..(k - 1) :
              /\ invoked[j].call < invoked[k].call
              /\ invoked[k].at - invoked[j].at >= limit

\* ---------------------------------------------------------------- C21
\* s contains the word w, letter case ignored.
ContainsIgnoringCase(s, w) ==
  \E i \in 1..Len(s) :
      /\ i + Len(w) - 1 <= Len(s)
      /\ [j \in 1..Len(w) |-> IgnoreCase(s[i + j - 1])] = w

\* C21: what sanitizeCss returns contains none of the characters ; < > { },
\* contains neither javascript: nor expression( in any letter case, is the
\* empty string for null and undefined, and is returned unchanged when
\* sanitizeCss is applied to it.
C21_SanitizedIsSafeAndStable ==
  IsSome(sanitized) =>
    /\ \A i \in 1..Len(sanitized[1]) : sanitized[1][i] \notin {";", "<", ">", "{", "}"}
    /\ ~ContainsIgnoringCase(sanitized[1], <<"j", "a", "v", "a", "s", "c", "r", "i", "p", "t", ":">>)
    /\ ~ContainsIgnoringCase(sanitized[1], <<"e", "x", "p", "r", "e", "s", "s", "i", "o", "n", "(">>)
    /\ value[1] = None => sanitized[1] = <<>>
    /\ sanitizeCss(Some(sanitized[1])) = sanitized[1]

====
